---- MODULE Spec2Model ----
(***************************************************************************)
(* Requirement / capability matching of lisa/schema.py: NodeSpace and      *)
(* EnvironmentSpace (check, _generate_min_capability) over Feature objects *)
(* that live on a shared heap, with the search_space helpers they call;    *)
(* and, each run on its own, EnvironmentSpace.from_value, RemoteNode,      *)
(* ExtendableSchemaMixin.get_extended_runbook, Cps.process_result_file and *)
(* perf_ntttcp.                                                            *)
(***************************************************************************)
EXTENDS Integers, Sequences, FiniteSets, TLC

VARIABLES
    heap,       \* Feature objects: id -> [name, enabled, can_disable]
    heap0,      \* the Feature objects as they were constructed
    req,        \* the requirement NodeSpace (self)
    cap,        \* the capability NodeSpace
    envReq,     \* the requirement EnvironmentSpace (self)
    envCap,     \* the capability EnvironmentSpace
    argKind,    \* what is passed as capability: "object" (of the declared class), "None" or "other"
    op,         \* the call that returned last
    result,     \* the ResultReason that call returned
    raised,     \* the exception that call ended in, or "none"
    min_value,  \* <<NodeSpace>> returned by _generate_min_capability, else <<>>
    visited,    \* EnvironmentSpace.check: the <<requirement index, capability index>> pairs compared
    ret,        \* what the other calls returned: __eq__'s bool, from_value's node, an environment
    pc,         \* per thread: the position inside its call
    task,       \* per thread: the call it makes
    local,      \* per thread: the locals of the call in progress
    tresult,    \* per thread: the ResultReason its check returned
    lists,      \* EnvironmentSpace.from_value: the node list objects and who holds which
    runbook,    \* an ExtendableSchemaMixin instance and what get_extended_runbook returned
    cps,        \* a Cps instance and what process_result_file returned
    remote,     \* a RemoteNode under construction
    perf        \* a perf_ntttcp call: its position, its locals and the tool calls it made

vars == <<heap, heap0, req, cap, envReq, envCap, argKind, op, result, raised, min_value,
          visited, ret, pc, task, local, tresult, lists, runbook, cps, remote, perf>>
inputs == <<heap0, req, cap, envReq, envCap, argKind>>
threads == <<pc, task, local, tresult>>
tools == <<lists, runbook, cps, remote, perf>>

-----------------------------------------------------------------------------
(* Bounds of the model *)

\* count values range over 0..MaxCount
MaxCount == 2
\* an EnvironmentSpace holds at most MaxNodes nodes
MaxNodes == 3

-----------------------------------------------------------------------------
(* search_space: CountSpace *)

\* IntRange.max default (sys.maxsize): above every count of the model
maxsize == MaxCount + 1

Exact(n) == [kind |-> "int", min |-> n, max |-> n]

IntRange(lo, hi) == [kind |-> "range", min |-> lo, max |-> hi]

\* a count field that holds None
NoCount == [kind |-> "none", min |-> 0, max |-> 0]

\* Python truth value of a CountSpace: None is false, an int is true when
\* non-zero, an IntRange object is always true
CountTruthy(c) == c.kind = "range" \/ (c.kind = "int" /\ c.min # 0)

-----------------------------------------------------------------------------
(* search_space: ResultReason *)

ResultReason == [result |-> TRUE, reasons |-> <<>>]

Reason(msg) == [path |-> <<>>, msg |-> msg]

add_reason(rr, msg) ==
    [result |-> FALSE, reasons |-> Append(rr.reasons, Reason(msg))]

\* sub's reasons are appended under the prefix name, the verdicts are ANDed
merge(rr, sub, name) ==
    [result |-> rr.result /\ sub.result,
     reasons |-> rr.reasons \o
                 [i \in 1..Len(sub.reasons) |->
                     [sub.reasons[i] EXCEPT !.path = <<name>> \o @]]]

\* exact vs exact: capability >= requirement; with a range on either side the
\* capability must cover the requirement; a requirement of None asks for
\* nothing, a capability of None offers nothing
check_countspace(requirement, capability) ==
    IF requirement.kind = "none" THEN ResultReason
    ELSE IF capability.kind = "none"
    THEN add_reason(ResultReason, "capability shouldn't be None")
    ELSE IF requirement.kind = "int" /\ capability.kind = "int"
    THEN IF capability.min >= requirement.min
         THEN ResultReason
         ELSE add_reason(ResultReason, "capability is less than requirement")
    ELSE IF capability.min <= requirement.min /\ capability.max >= requirement.max
         THEN ResultReason
         ELSE add_reason(ResultReason, "capability doesn't cover requirement")

Max2(a, b) == IF a >= b THEN a ELSE b

Min2(a, b) == IF a <= b THEN a ELSE b

\* two exact integers: the capability's value; otherwise both tightened; with
\* one side None, the other side's value
generate_min_capability_countspace(requirement, capability) ==
    IF requirement.kind = "none" THEN capability
    ELSE IF capability.kind = "none" THEN requirement
    ELSE IF requirement.kind = "int" /\ capability.kind = "int"
    THEN capability
    ELSE IF requirement.kind = "int" THEN requirement
    ELSE IF capability.kind = "int" THEN capability
    ELSE IntRange(Max2(requirement.min, capability.min),
                  Min2(requirement.max, capability.max))

-----------------------------------------------------------------------------
(* Feature objects and search_space.SetSpace[Feature] *)

FEATURE_NAME_RDMA == "RDMA"

\* object 1 is the module-level Features.RDMA; 2 is another entry named RDMA
\* (a platform's own declaration); 3 is an entry of another name
FeatureIds == {1, 2, 3}

FeatureName(id) == IF id = 3 THEN "GPU" ELSE FEATURE_NAME_RDMA

Feature(name, enabled, can_disable) ==
    [name |-> name, enabled |-> enabled, can_disable |-> can_disable]

\* Features.RDMA = Feature(name=FEATURE_NAME_RDMA): the dataclass defaults
Features_RDMA == Feature(FEATURE_NAME_RDMA, TRUE, FALSE)

NoSet == [isNone |-> TRUE, items |-> {}, is_allow_set |-> FALSE]

\* search_space.SetSpace[Feature](): a new, empty set
SetSpace == [isNone |-> FALSE, items |-> {}, is_allow_set |-> FALSE]

\* Python truth value of an Optional[SetSpace]: None and the empty set are false
SetTruthy(s) == ~s.isNone /\ s.items # {}

Names(h, s) == {h[f].name : f \in s.items}

\* a requirement entry against the capability's entry of the same name
Compatible(rf, cf) ==
    /\ rf.enabled => cf.enabled
    /\ ~rf.enabled => (~cf.enabled \/ cf.can_disable)

\* allow set: every entry is present in, and compatible with, the capability's
\* set, a capability that declares no set being unconstrained;
\* deny set: none of its names is in the capability's (must-include) set
SetSpace_check(h, requirement, capability) ==
    IF requirement.isNone THEN ResultReason
    ELSE IF requirement.is_allow_set
    THEN IF capability.isNone
            \/ \A f \in requirement.items :
                 \E g \in capability.items :
                    h[g].name = h[f].name /\ Compatible(h[f], h[g])
         THEN ResultReason
         ELSE add_reason(ResultReason, "requirement features aren't supported")
    ELSE IF Names(h, requirement) \cap Names(h, capability) = {}
         THEN ResultReason
         ELSE add_reason(ResultReason, "excluded features are included")

-----------------------------------------------------------------------------
(* NodeSpace *)

\* constants.ENVIRONMENTS_NODES_REQUIREMENT, the default of NodeSpace.type
ENVIRONMENTS_NODES_REQUIREMENT == "requirement"

\* the dataclass with type, name, is_default and artifact at their defaults
NodeSpace(node_count, core_count, memory_mb, nic_count, gpu_count, features, excluded_features) ==
    [type |-> ENVIRONMENTS_NODES_REQUIREMENT, name |-> "", is_default |-> FALSE,
     artifact |-> "",
     node_count |-> node_count, core_count |-> core_count,
     memory_mb |-> memory_mb, nic_count |-> nic_count, gpu_count |-> gpu_count,
     features |-> features, excluded_features |-> excluded_features]

\* __post_init__: a non-empty features is tagged allow, a non-empty
\* excluded_features is tagged deny
NodeSpace_post_init(node) ==
    [node EXCEPT
        !.features = IF SetTruthy(@) THEN [@ EXCEPT !.is_allow_set = TRUE] ELSE @,
        !.excluded_features =
            IF SetTruthy(@) THEN [@ EXCEPT !.is_allow_set = FALSE] ELSE @]

\* check: the assertions on the two tags
NodeSpace_check_asserts(self) ==
    /\ SetTruthy(self.features) => self.features.is_allow_set
    /\ SetTruthy(self.excluded_features) => ~self.excluded_features.is_allow_set

\* mutant: every enabled feature counts, whether it can be disabled or not
must_included_capability_enabled(h, self, capability) ==
    IF SetTruthy(capability.features) /\ SetTruthy(self.excluded_features)
    THEN [SetSpace EXCEPT !.items =
            {f \in capability.features.items : h[f].enabled}]
    ELSE NoSet

\* check: the capability's enabled features that cannot be disabled
must_included_capability(h, self, capability) ==
    IF SetTruthy(capability.features) /\ SetTruthy(self.excluded_features)
    THEN [SetSpace EXCEPT !.items =
            {f \in capability.features.items :
                h[f].enabled /\ h[f].can_disable = FALSE}]
    ELSE NoSet

GuardReason == "node_count, core_count, memory_mb, nic_count shouldn't be None"

NodeCountReason == "capability node count must be more than requirement"

\* mutant: the guard also rejects a capability without gpu_count
NodeSpace_check_guard_gpu(res, capability) ==
    IF \/ ~CountTruthy(capability.node_count)
       \/ ~CountTruthy(capability.core_count)
       \/ ~CountTruthy(capability.memory_mb)
       \/ ~CountTruthy(capability.nic_count)
       \/ ~CountTruthy(capability.gpu_count)
    THEN add_reason(res, GuardReason)
    ELSE res

RECURSIVE add_reasons(_, _, _)
\* n times the same reason
add_reasons(res, msg, n) ==
    IF n = 0 THEN res ELSE add_reasons(add_reason(res, msg), msg, n - 1)

\* mutant: the guard adds a reason for each of the four counts that is absent
NodeSpace_check_guard_each(res, capability) ==
    add_reasons(res, GuardReason,
                Cardinality({f \in {"node_count", "core_count", "memory_mb", "nic_count"} :
                                ~CountTruthy(capability[f])}))

\* check: the guard on the capability's four counts
NodeSpace_check_guard(res, capability) ==
    IF \/ ~CountTruthy(capability.node_count)
       \/ ~CountTruthy(capability.core_count)
       \/ ~CountTruthy(capability.memory_mb)
       \/ ~CountTruthy(capability.nic_count)
    THEN add_reason(res, GuardReason)
    ELSE res

\* mutant: two exact node counts must differ, the capability's being larger
NodeSpace_check_node_count_strict(res, self, capability) ==
    IF self.node_count.kind = "int" /\ capability.node_count.kind = "int"
    THEN IF self.node_count.min >= capability.node_count.min
         THEN add_reason(res, NodeCountReason)
         ELSE res
    ELSE merge(res, check_countspace(self.node_count, capability.node_count),
               "node_count")

\* check: node_count, special-cased for two exact integers
NodeSpace_check_node_count(res, self, capability) ==
    IF self.node_count.kind = "int" /\ capability.node_count.kind = "int"
    THEN IF self.node_count.min > capability.node_count.min
         THEN add_reason(res, NodeCountReason)
         ELSE res
    ELSE merge(res, check_countspace(self.node_count, capability.node_count),
               "node_count")

\* a field check that is skipped once the verdict is false
merge_until_failed(rr, sub, name) == IF rr.result THEN merge(rr, sub, name) ELSE rr

\* mutant: the field checks stop at the first one that fails
NodeSpace_check_fields_first_failure(h, self, capability, must) ==
    LET r1 == NodeSpace_check_guard(ResultReason, capability)
        r2 == IF r1.result THEN NodeSpace_check_node_count(r1, self, capability)
              ELSE r1
        r3 == merge_until_failed(
                r2, check_countspace(self.core_count, capability.core_count),
                "core_count")
        r4 == merge_until_failed(
                r3, check_countspace(self.memory_mb, capability.memory_mb),
                "memory_mb")
        r5 == merge_until_failed(
                r4, check_countspace(self.nic_count, capability.nic_count),
                "nic_count")
        r6 == merge_until_failed(
                r5, check_countspace(self.gpu_count, capability.gpu_count),
                "gpu_count")
        r7 == merge_until_failed(
                r6, SetSpace_check(h, self.features, capability.features),
                "features")
    IN  IF ~self.excluded_features.isNone
        THEN merge_until_failed(
                r7, SetSpace_check(h, self.excluded_features, must),
                "excluded_features")
        ELSE r7

\* check: the guard and the seven field checks, merged in order
NodeSpace_check_fields(h, self, capability, must) ==
    LET r1 == NodeSpace_check_guard(ResultReason, capability)
        r2 == NodeSpace_check_node_count(r1, self, capability)
        r3 == merge(r2, check_countspace(self.core_count, capability.core_count),
                    "core_count")
        r4 == merge(r3, check_countspace(self.memory_mb, capability.memory_mb),
                    "memory_mb")
        r5 == merge(r4, check_countspace(self.nic_count, capability.nic_count),
                    "nic_count")
        r6 == merge(r5, check_countspace(self.gpu_count, capability.gpu_count),
                    "gpu_count")
        r7 == merge(r6, SetSpace_check(h, self.features, capability.features),
                    "features")
    IN  IF ~self.excluded_features.isNone
        THEN merge(r7, SetSpace_check(h, self.excluded_features, must),
                   "excluded_features")
        ELSE r7

\* mutant: a capability of another name than the requirement's is turned down
NodeSpace_check_named(h, self, capability) ==
    LET res == NodeSpace_check_fields(h, self, capability,
                                      must_included_capability(h, self, capability))
    IN  IF self.name = capability.name THEN res
        ELSE merge(res, add_reason(ResultReason, "names differ"), "name")

\* check: the ResultReason returned when no assertion fails
NodeSpace_check(h, self, capability) ==
    NodeSpace_check_fields(h, self, capability,
                           must_included_capability(h, self, capability))

\* SetSpace equality: both None, or both sets and of equal Feature values
SetSpace_eq(h, a, b) ==
    /\ a.isNone = b.isNone
    /\ {h[f] : f \in a.items} = {h[f] : f \in b.items}

\* __eq__: the eleven fields compared
NodeSpace_eq(h, self, other) ==
    /\ self.type = other.type
    /\ self.name = other.name
    /\ self.is_default = other.is_default
    /\ self.artifact = other.artifact
    /\ self.node_count = other.node_count
    /\ self.core_count = other.core_count
    /\ self.memory_mb = other.memory_mb
    /\ self.nic_count = other.nic_count
    /\ self.gpu_count = other.gpu_count
    /\ SetSpace_eq(h, self.features, other.features)
    /\ SetSpace_eq(h, self.excluded_features, other.excluded_features)

NoneReason == "capability shouldn't be None"

\* mutant: a capability of None is reported as a reason of the returned result
NodeSpace_check_call_reporting(h, self, capability, kind) ==
    IF kind = "None"
    THEN [raised |-> "none", result |-> add_reason(ResultReason, NoneReason)]
    ELSE IF kind # "object" \/ ~NodeSpace_check_asserts(self)
    THEN [raised |-> "AssertionError", result |-> ResultReason]
    ELSE [raised |-> "none", result |-> NodeSpace_check(h, self, capability)]

\* check, whatever is passed as capability: the reason added for None is lost
\* when assert isinstance(capability, NodeSpace) fails; nothing is returned then
NodeSpace_check_call(h, self, capability, kind) ==
    IF kind # "object" \/ ~NodeSpace_check_asserts(self)
    THEN [raised |-> "AssertionError", result |-> ResultReason]
    ELSE [raised |-> "none", result |-> NodeSpace_check(h, self, capability)]

\* mutant: a count is required of the capability, whatever the requirement says
NodeSpace_min_absent_capability(self, capability) ==
    IF ~CountTruthy(capability.node_count) THEN "node_count"
    ELSE IF ~CountTruthy(capability.core_count) THEN "core_count"
    ELSE IF ~CountTruthy(capability.memory_mb) THEN "memory_mb"
    ELSE IF ~CountTruthy(capability.nic_count) THEN "nic_count"
    ELSE ""

\* _generate_min_capability: the first of the four counts that neither side
\* declares, "" when each is declared by a side
NodeSpace_min_absent(self, capability) ==
    IF ~(CountTruthy(self.node_count) \/ CountTruthy(capability.node_count))
    THEN "node_count"
    ELSE IF ~(CountTruthy(self.core_count) \/ CountTruthy(capability.core_count))
    THEN "core_count"
    ELSE IF ~(CountTruthy(self.memory_mb) \/ CountTruthy(capability.memory_mb))
    THEN "memory_mb"
    ELSE IF ~(CountTruthy(self.nic_count) \/ CountTruthy(capability.nic_count))
    THEN "nic_count"
    ELSE ""

\* raise LisaException("<field> cannot be zero")
LisaException(field) == "LisaException: " \o field \o " cannot be zero"

\* mutant: gpu_count is resolved like the other counts, whatever is declared
NodeSpace_min_counts_gpu_resolved(self, capability) ==
    [node_count |->
        IF self.node_count.kind = "int" /\ capability.node_count.kind = "int"
        THEN capability.node_count
        ELSE generate_min_capability_countspace(self.node_count,
                                                capability.node_count),
     core_count |-> generate_min_capability_countspace(self.core_count,
                                                       capability.core_count),
     memory_mb |-> generate_min_capability_countspace(self.memory_mb,
                                                      capability.memory_mb),
     nic_count |-> generate_min_capability_countspace(self.nic_count,
                                                      capability.nic_count),
     gpu_count |-> generate_min_capability_countspace(self.gpu_count,
                                                      capability.gpu_count)]

\* mutant: two exact node counts give the requirement's
NodeSpace_min_counts_requirement(self, capability) ==
    [node_count |->
        IF self.node_count.kind = "int" /\ capability.node_count.kind = "int"
        THEN self.node_count
        ELSE generate_min_capability_countspace(self.node_count,
                                                capability.node_count),
     core_count |-> generate_min_capability_countspace(self.core_count,
                                                       capability.core_count),
     memory_mb |-> generate_min_capability_countspace(self.memory_mb,
                                                      capability.memory_mb),
     nic_count |-> generate_min_capability_countspace(self.nic_count,
                                                      capability.nic_count),
     gpu_count |->
        IF CountTruthy(self.gpu_count) \/ CountTruthy(capability.gpu_count)
        THEN generate_min_capability_countspace(self.gpu_count,
                                                capability.gpu_count)
        ELSE Exact(0)]

\* _generate_min_capability: the five counts of min_value
NodeSpace_min_counts(self, capability) ==
    [node_count |->
        IF self.node_count.kind = "int" /\ capability.node_count.kind = "int"
        THEN capability.node_count
        ELSE generate_min_capability_countspace(self.node_count,
                                                capability.node_count),
     core_count |-> generate_min_capability_countspace(self.core_count,
                                                       capability.core_count),
     memory_mb |-> generate_min_capability_countspace(self.memory_mb,
                                                      capability.memory_mb),
     nic_count |-> generate_min_capability_countspace(self.nic_count,
                                                      capability.nic_count),
     gpu_count |->
        IF CountTruthy(self.gpu_count) \/ CountTruthy(capability.gpu_count)
        THEN generate_min_capability_countspace(self.gpu_count,
                                                capability.gpu_count)
        ELSE Exact(0)]

\* mutant: min_value.features is the requirement's features alone
NodeSpace_min_features_allowed(self) ==
    IF SetTruthy(self.features) THEN self.features.items ELSE {}

\* _generate_min_capability: the entries of min_value.features
NodeSpace_min_features(self) ==
    (IF SetTruthy(self.features) THEN self.features.items ELSE {})
    \cup (IF SetTruthy(self.excluded_features)
          THEN self.excluded_features.items ELSE {})

\* _generate_min_capability: the Feature objects after the loop over
\* self.excluded_features, which assigns excluded_feature.enabled = False
NodeSpace_min_heap(h, self) ==
    [f \in DOMAIN h |->
        IF SetTruthy(self.excluded_features) /\ f \in self.excluded_features.items
        THEN [h[f] EXCEPT !.enabled = FALSE]
        ELSE h[f]]

\* _generate_min_capability: what the call raises, returns and leaves on the heap
NodeSpace_generate_min_capability(h, self, capability) ==
    IF NodeSpace_min_absent(self, capability) # ""
    THEN [raised |-> LisaException(NodeSpace_min_absent(self, capability)),
          value |-> <<>>, heap |-> h]
    ELSE LET c == NodeSpace_min_counts(self, capability)
         IN  [raised |-> "none",
              value |-> <<NodeSpace(c.node_count, c.core_count, c.memory_mb,
                                    c.nic_count, c.gpu_count,
                                    [SetSpace EXCEPT
                                        !.items = NodeSpace_min_features(self)],
                                    NoSet)>>,
              heap |-> NodeSpace_min_heap(h, self)]

\* a set of the given entries, None when there is none: from_value creates a
\* set on the first entry it has to add
SetOrNone(items) == IF items = {} THEN NoSet ELSE [SetSpace EXCEPT !.items = items]

\* mutant: only the enabled entries of value.features go to features
NodeSpace_from_value_features_enabled(h, value) ==
    IF SetTruthy(value.features)
    THEN {f \in value.features.items : h[f].enabled}
    ELSE {}

\* from_value: the entries of value.features that go to node.features
NodeSpace_from_value_features(h, value) ==
    IF SetTruthy(value.features)
    THEN {f \in value.features.items : h[f].enabled \/ h[f].can_disable}
    ELSE {}

\* from_value: the entries of value.features that go to node.excluded_features
NodeSpace_from_value_excluded(h, value) ==
    IF SetTruthy(value.features)
    THEN value.features.items \ NodeSpace_from_value_features(h, value)
    ELSE {}

\* from_value: a NodeSpace() that takes the five counts of value and its
\* features, split in two; the sets are made after __post_init__ has run
NodeSpace_from_value(h, value) ==
    NodeSpace(value.node_count, value.core_count, value.memory_mb,
              value.nic_count, value.gpu_count,
              SetOrNone(NodeSpace_from_value_features(h, value)),
              SetOrNone(NodeSpace_from_value_excluded(h, value)))

-----------------------------------------------------------------------------
(* EnvironmentSpace *)

ENVIRONMENTS_SUBNET == "subnet"

EnvironmentSpace(nodes) ==
    [topology |-> ENVIRONMENTS_SUBNET, nodes |-> nodes, nodes_is_none |-> FALSE]

\* Python truth value of a node list: None and the empty list are false
NodesTruthy(env) == ~env.nodes_is_none /\ Len(env.nodes) > 0

\* search_space.check(requirement, capability) on two nodes: the requirement's
\* own check
search_space_check(h, requirement, capability) ==
    IF NodeSpace_check_asserts(requirement)
    THEN [raised |-> "none", result |-> NodeSpace_check(h, requirement, capability)]
    ELSE [raised |-> "AssertionError", result |-> ResultReason]

\* mutant: every requirement node is compared with the first capability node
EnvironmentSpace_current_cap_first(capability, index) == 1

\* check: the capability node compared with requirement node index (1-based
\* here, 0-based in the source)
EnvironmentSpace_current_cap(capability, index) ==
    IF Len(capability.nodes) = 1 THEN 1 ELSE index

RECURSIVE EnvironmentSpace_check_loop_no_break(_, _, _, _, _, _)
\* mutant: the loop goes on after a node has failed
EnvironmentSpace_check_loop_no_break(h, self, capability, index, res, vis) ==
    IF index > Len(self.nodes)
    THEN [raised |-> "none", result |-> res, visited |-> vis]
    ELSE LET j == EnvironmentSpace_current_cap(capability, index)
         IN  IF j > Len(capability.nodes)
             THEN [raised |-> "IndexError", result |-> ResultReason, visited |-> vis]
             ELSE LET sub == search_space_check(h, self.nodes[index],
                                                capability.nodes[j])
                      merged == merge(res, sub.result, ToString(index - 1))
                      seen == Append(vis, <<index, j>>)
                  IN  IF sub.raised # "none"
                      THEN [raised |-> sub.raised, result |-> ResultReason,
                            visited |-> seen]
                      ELSE EnvironmentSpace_check_loop_no_break(
                              h, self, capability, index + 1, merged, seen)

RECURSIVE EnvironmentSpace_check_loop_bounded(_, _, _, _, _, _)
\* mutant: the loop ends, with what it has merged, at the first requirement
\* node that has no capability node
EnvironmentSpace_check_loop_bounded(h, self, capability, index, res, vis) ==
    IF index > Len(self.nodes)
    THEN [raised |-> "none", result |-> res, visited |-> vis]
    ELSE LET j == EnvironmentSpace_current_cap(capability, index)
         IN  IF j > Len(capability.nodes)
             THEN [raised |-> "none", result |-> res, visited |-> vis]
             ELSE LET sub == search_space_check(h, self.nodes[index],
                                                capability.nodes[j])
                      merged == merge(res, sub.result, ToString(index - 1))
                      seen == Append(vis, <<index, j>>)
                  IN  IF sub.raised # "none"
                      THEN [raised |-> sub.raised, result |-> ResultReason,
                            visited |-> seen]
                      ELSE IF ~merged.result
                      THEN [raised |-> "none", result |-> merged, visited |-> seen]
                      ELSE EnvironmentSpace_check_loop_bounded(
                              h, self, capability, index + 1, merged, seen)

RECURSIVE EnvironmentSpace_check_loop(_, _, _, _, _, _)
\* check: the loop over self.nodes from index on
EnvironmentSpace_check_loop(h, self, capability, index, res, vis) ==
    IF index > Len(self.nodes)
    THEN [raised |-> "none", result |-> res, visited |-> vis]
    ELSE LET j == EnvironmentSpace_current_cap(capability, index)
         IN  IF j > Len(capability.nodes)
             THEN [raised |-> "IndexError", result |-> ResultReason, visited |-> vis]
             ELSE LET sub == search_space_check(h, self.nodes[index],
                                                capability.nodes[j])
                      merged == merge(res, sub.result, ToString(index - 1))
                      seen == Append(vis, <<index, j>>)
                  IN  IF sub.raised # "none"
                      THEN [raised |-> sub.raised, result |-> ResultReason,
                            visited |-> seen]
                      ELSE IF ~merged.result
                      THEN [raised |-> "none", result |-> merged, visited |-> seen]
                      ELSE EnvironmentSpace_check_loop(h, self, capability,
                                                       index + 1, merged, seen)

NodesReason == "nodes shouldn't be None or empty"

\* mutant: only a capability whose node list is None is turned down at once
EnvironmentSpace_check_none_only(h, self, capability) ==
    IF capability.nodes_is_none
    THEN [raised |-> "none", result |-> add_reason(ResultReason, NodesReason),
          visited |-> <<>>]
    ELSE IF NodesTruthy(self)
    THEN EnvironmentSpace_check_loop(h, self, capability, 1, ResultReason, <<>>)
    ELSE [raised |-> "none", result |-> ResultReason, visited |-> <<>>]

\* check: what the call raises and returns, and the pairs it compared
EnvironmentSpace_check(h, self, capability) ==
    IF ~NodesTruthy(capability)
    THEN [raised |-> "none", result |-> add_reason(ResultReason, NodesReason),
          visited |-> <<>>]
    ELSE IF NodesTruthy(self)
    THEN EnvironmentSpace_check_loop(h, self, capability, 1, ResultReason, <<>>)
    ELSE [raised |-> "none", result |-> ResultReason, visited |-> <<>>]

\* check, whatever is passed as capability: assert isinstance(capability,
\* EnvironmentSpace) comes first
EnvironmentSpace_check_call(h, self, capability, kind) ==
    IF kind # "object"
    THEN [raised |-> "AssertionError", result |-> ResultReason, visited |-> <<>>]
    ELSE EnvironmentSpace_check(h, self, capability)

\* requirement.generate_min_capability(capability) of search_space's
\* RequirementMixin: the requirement's own _generate_min_capability
generate_min_capability(h, requirement, capability) ==
    NodeSpace_generate_min_capability(h, requirement, capability)

RECURSIVE EnvironmentSpace_min_loop_short_circuit(_, _, _, _, _)
\* mutant: the loop stops, as check does, at the first requirement node that
\* its capability node does not satisfy
EnvironmentSpace_min_loop_short_circuit(h, self, capability, index, nodes) ==
    IF index > Len(self.nodes)
    THEN [raised |-> "none", nodes |-> nodes, heap |-> h]
    ELSE LET j == EnvironmentSpace_current_cap(capability, index)
         IN  IF j > Len(capability.nodes)
             THEN [raised |-> "IndexError", nodes |-> <<>>, heap |-> h]
             ELSE LET sub == generate_min_capability(
                                h, self.nodes[index], capability.nodes[j])
                  IN  IF sub.raised # "none"
                      THEN [raised |-> sub.raised, nodes |-> <<>>, heap |-> sub.heap]
                      ELSE IF ~NodeSpace_check(h, self.nodes[index],
                                               capability.nodes[j]).result
                      THEN [raised |-> "none", nodes |-> nodes \o sub.value,
                            heap |-> sub.heap]
                      ELSE EnvironmentSpace_min_loop_short_circuit(
                              sub.heap, self, capability, index + 1,
                              nodes \o sub.value)

RECURSIVE EnvironmentSpace_min_loop(_, _, _, _, _)
\* _generate_min_capability: the loop over self.nodes from index on; each node
\* is resolved by its own generate_min_capability, on the Feature objects as
\* the nodes before it left them
EnvironmentSpace_min_loop(h, self, capability, index, nodes) ==
    IF index > Len(self.nodes)
    THEN [raised |-> "none", nodes |-> nodes, heap |-> h]
    ELSE LET j == EnvironmentSpace_current_cap(capability, index)
         IN  IF j > Len(capability.nodes)
             THEN [raised |-> "IndexError", nodes |-> <<>>, heap |-> h]
             ELSE LET sub == generate_min_capability(
                                h, self.nodes[index], capability.nodes[j])
                  IN  IF sub.raised # "none"
                      THEN [raised |-> sub.raised, nodes |-> <<>>, heap |-> sub.heap]
                      ELSE EnvironmentSpace_min_loop(
                              sub.heap, self, capability, index + 1,
                              nodes \o sub.value)

\* _generate_min_capability: what the call raises, returns (<<env>> or <<>>)
\* and leaves on the heap
EnvironmentSpace_generate_min_capability(h, self, capability, kind) ==
    IF kind # "object" \/ ~NodesTruthy(capability)
    THEN [raised |-> "AssertionError", env |-> <<>>, heap |-> h]
    ELSE LET out == EnvironmentSpace_min_loop(h, self, capability, 1, <<>>)
         IN  [raised |-> out.raised,
              env |-> IF out.raised = "none"
                      THEN <<[EnvironmentSpace(out.nodes)
                                EXCEPT !.topology = self.topology]>>
                      ELSE <<>>,
              heap |-> out.heap]

\* search_space.equal_list: lists of one length whose items are equal one by one
equal_list(h, a, b) ==
    /\ Len(a) = Len(b)
    /\ \A i \in 1..Len(a) : NodeSpace_eq(h, a[i], b[i])

\* mutant: __eq__ compares the node lists only
EnvironmentSpace_eq_nodes_only(h, self, other) ==
    equal_list(h, self.nodes, other.nodes)

\* __eq__: the topology and the node lists; an EnvironmentSpace has no name
EnvironmentSpace_eq(h, self, other) ==
    /\ self.topology = other.topology
    /\ equal_list(h, self.nodes, other.nodes)

-----------------------------------------------------------------------------
(* The inputs a run starts from *)

Abs(n) == IF n < 0 THEN -n ELSE n

\* <<requirement, capability>> exact counts at most one apart, the
\* capability's from lo
IntPairs(lo) ==
    {p \in (1..MaxCount) \X (lo..MaxCount) : Abs(p[1] - p[2]) <= 1}

GpuPairs == (0..1) \X (0..1)

\* exact counts, and ranges [lo, hi] with hi up to maxsize (no upper bound)
CountSpaces ==
    {Exact(n) : n \in 0..MaxCount}
    \cup {IntRange(p[1], p[2]) :
            p \in {q \in (1..MaxCount) \X (1..maxsize) : q[1] <= q[2]}}

\* the feature sets a node can declare: no two entries of one name
FeatureSets ==
    {NoSet} \cup
    {[SetSpace EXCEPT !.items = s] :
        s \in {t \in SUBSET FeatureIds :
                \A f, g \in t : FeatureName(f) = FeatureName(g) => f = g}}

Heaps ==
    {h \in [FeatureIds -> [name : {"RDMA", "GPU"}, enabled : BOOLEAN,
                           can_disable : BOOLEAN]] :
        /\ h[1] = Features_RDMA
        /\ \A f \in FeatureIds : h[f].name = FeatureName(f)}

DefaultHeap == [f \in FeatureIds |-> Feature(FeatureName(f), TRUE, FALSE)]

\* a node of exact counts that declares no features
Plain(node_count, core_count, memory_mb, nic_count, gpu_count) ==
    NodeSpace_post_init(
        NodeSpace(Exact(node_count), Exact(core_count), Exact(memory_mb),
                  Exact(nic_count), Exact(gpu_count), NoSet, NoSet))

EmptyEnv == EnvironmentSpace(<<>>)

IdleThreads ==
    /\ pc = [t \in {1, 2} |-> "idle"]
    /\ task = [t \in {1, 2} |-> "none"]
    /\ local = [t \in {1, 2} |-> NoSet]
    /\ tresult = [t \in {1, 2} |-> ResultReason]

\* nothing returned by __eq__, from_value or an environment's
\* _generate_min_capability
\* passes: whether requirement.check(capability) passed on what
\* _generate_min_capability was called with
NoRet == [equal |-> FALSE, node |-> <<>>, env |-> <<>>, passes |-> FALSE]

\* the components outside the matching core before anything is constructed
NoLists == [called |-> FALSE]
NoRunbook == [constructed |-> FALSE]
NoCps == [constructed |-> FALSE]
NoRemote == [state |-> "none"]
NoPerf == [pc |-> "idle"]

IdleTools ==
    /\ lists = NoLists
    /\ runbook = NoRunbook
    /\ cps = NoCps
    /\ remote = NoRemote
    /\ perf = NoPerf

NoCall ==
    /\ op = "init"
    /\ result = ResultReason
    /\ raised = "none"
    /\ min_value = <<>>
    /\ visited = <<>>
    /\ ret = NoRet

\* five exact counts on each side, no features
InitCounts ==
    /\ \E n, c, m, i \in IntPairs(0) : \E g \in GpuPairs :
          /\ req = Plain(n[1], c[1], m[1], i[1], g[1])
          /\ cap = Plain(n[2], c[2], m[2], i[2], g[2])
    /\ heap = DefaultHeap
    /\ envReq = EmptyEnv /\ envCap = EmptyEnv

\* node_count an exact count or a range on each side
InitNodeCount ==
    /\ \E rn \in CountSpaces \ {Exact(0)} : \E cn \in CountSpaces :
       \E p \in {<<1, 1>>, <<2, 1>>} :
          /\ req = [Plain(1, p[1], p[1], p[1], p[1] - 1) EXCEPT !.node_count = rn]
          /\ cap = [Plain(1, p[2], p[2], p[2], p[2] - 1) EXCEPT !.node_count = cn]
    /\ heap = DefaultHeap
    /\ envReq = EmptyEnv /\ envCap = EmptyEnv

\* features and excluded_features over shared Feature objects
InitFeatures ==
    /\ heap \in Heaps
    /\ \E rf, re, cf \in FeatureSets : \E p \in {<<1, 1>>, <<2, 1>>} :
          /\ req = NodeSpace_post_init(
                     [Plain(p[1], p[1], p[1], p[1], p[1] - 1)
                        EXCEPT !.features = rf, !.excluded_features = re])
          /\ cap = NodeSpace_post_init(
                     [Plain(p[2], p[2], p[2], p[2], p[2] - 1)
                        EXCEPT !.features = cf])
    /\ envReq = EmptyEnv /\ envCap = EmptyEnv

\* the nodes of an environment differ in core_count
EnvNodes == {Plain(1, c, 1, 1, 0) : c \in 1..MaxCount}

NodeLists == UNION {[1..n -> EnvNodes] : n \in 0..MaxNodes}

InitEnv ==
    /\ envReq \in {EnvironmentSpace(l) : l \in NodeLists}
    /\ envCap \in {EnvironmentSpace(l) : l \in NodeLists}
                  \cup {[EmptyEnv EXCEPT !.nodes_is_none = TRUE]}
    /\ req = Plain(1, 1, 1, 1, 0)
    /\ cap = Plain(1, 1, 1, 1, 0)
    /\ heap = DefaultHeap

\* a count of the requirement that is None, 0 or 1 against a count of the
\* capability that is None or 1
AbsentPairs == {NoCount, Exact(0), Exact(1)} \X {NoCount, Exact(1)}

\* counts that are None or zero on either side
InitAbsent ==
    /\ \E n, c, m, i \in AbsentPairs :
       \E g \in {<<NoCount, NoCount>>, <<Exact(1), Exact(0)>>} :
       \E rf \in {NoSet, [SetSpace EXCEPT !.items = {3}]} :
          /\ req = NodeSpace_post_init(
                     NodeSpace(n[1], c[1], m[1], i[1], g[1], rf, NoSet))
          /\ cap = NodeSpace_post_init(
                     NodeSpace(n[2], c[2], m[2], i[2], g[2],
                               [SetSpace EXCEPT !.items = {1}], NoSet))
    /\ heap = DefaultHeap
    /\ envReq = EmptyEnv /\ envCap = EmptyEnv

\* None, or an object of another class, is passed as capability
InitContract ==
    /\ argKind \in {"None", "other"}
    /\ \E c \in 1..MaxCount : \E g \in 0..1 : req = Plain(1, c, 1, 1, g)
    /\ cap = Plain(1, 1, 1, 1, 0)
    /\ envReq \in {EnvironmentSpace(l) : l \in UNION {[1..n -> EnvNodes] : n \in 0..1}}
    /\ envCap = EmptyEnv
    /\ heap = DefaultHeap

Init ==
    /\ \/ /\ InitCounts \/ InitNodeCount \/ InitFeatures \/ InitEnv \/ InitAbsent
          /\ argKind = "object"
       \/ InitContract
    /\ heap0 = heap
    /\ NoCall
    /\ IdleThreads
    /\ IdleTools

-----------------------------------------------------------------------------
(* The calls *)

\* mutant: check disables the requirement's excluded features as it goes
CallNodeCheck_disabling ==
    LET out == NodeSpace_check_call(heap, req, cap, argKind)
    IN  /\ op' = "NodeSpace.check"
        /\ raised' = out.raised
        /\ result' = out.result
        /\ min_value' = <<>>
        /\ visited' = <<>>
        /\ ret' = NoRet
        /\ heap' = NodeSpace_min_heap(heap, req)
        /\ UNCHANGED <<inputs, tools, threads>>

\* requirement.check(capability) on the two nodes
CallNodeCheck ==
    LET out == NodeSpace_check_call(heap, req, cap, argKind)
    IN  /\ op' = "NodeSpace.check"
        /\ raised' = out.raised
        /\ result' = out.result
        /\ min_value' = <<>>
        /\ visited' = <<>>
        /\ ret' = NoRet
        /\ UNCHANGED <<heap, inputs, tools, threads>>

\* requirement._generate_min_capability(capability) on the two nodes
CallNodeGenerateMinCapability ==
    LET out == NodeSpace_generate_min_capability(heap, req, cap)
    IN  /\ op' = "NodeSpace._generate_min_capability"
        /\ raised' = out.raised
        /\ result' = ResultReason
        /\ min_value' = out.value
        /\ visited' = <<>>
        /\ ret' = [NoRet EXCEPT
                     !.passes = NodeSpace_check_call(heap, req, cap, argKind).raised = "none"
                                /\ NodeSpace_check_call(heap, req, cap, argKind).result.result]
        /\ heap' = out.heap
        /\ UNCHANGED <<inputs, tools, threads>>

\* requirement.check(capability) on the two environments
CallEnvCheck ==
    LET out == EnvironmentSpace_check_call(heap, envReq, envCap, argKind)
    IN  /\ op' = "EnvironmentSpace.check"
        /\ raised' = out.raised
        /\ result' = out.result
        /\ min_value' = <<>>
        /\ visited' = out.visited
        /\ ret' = NoRet
        /\ UNCHANGED <<heap, inputs, tools, threads>>

\* requirement == capability on the two nodes
CallNodeEq ==
    /\ op' = "NodeSpace.__eq__"
    /\ raised' = IF argKind = "object" THEN "none" ELSE "AssertionError"
    /\ result' = ResultReason
    /\ min_value' = <<>>
    /\ visited' = <<>>
    /\ ret' = [NoRet EXCEPT !.equal = argKind = "object" /\ NodeSpace_eq(heap, req, cap)]
    /\ UNCHANGED <<heap, inputs, tools, threads>>

\* requirement == capability on the two environments
CallEnvEq ==
    /\ op' = "EnvironmentSpace.__eq__"
    /\ raised' = IF argKind = "object" THEN "none" ELSE "AssertionError"
    /\ result' = ResultReason
    /\ min_value' = <<>>
    /\ visited' = <<>>
    /\ ret' = [NoRet EXCEPT
                 !.equal = argKind = "object" /\ EnvironmentSpace_eq(heap, envReq, envCap)]
    /\ UNCHANGED <<heap, inputs, tools, threads>>

Next ==
    \/ CallNodeCheck
    \/ CallNodeGenerateMinCapability
    \/ CallEnvCheck

Spec == Init /\ [][Next]_vars

-----------------------------------------------------------------------------
(* Nodes and environments derived from others: from_value and
   _generate_min_capability *)

\* NodeSpace.from_value(capability)
CallNodeFromValue ==
    /\ op' = "NodeSpace.from_value"
    /\ raised' = IF argKind = "object" THEN "none" ELSE "AssertionError"
    /\ result' = ResultReason
    /\ min_value' = <<>>
    /\ visited' = <<>>
    /\ ret' = [NoRet EXCEPT
                 !.node = IF argKind = "object"
                          THEN <<NodeSpace_from_value(heap, cap)>> ELSE <<>>]
    /\ UNCHANGED <<heap, inputs, tools, threads>>

\* requirement.check(min_value), on the NodeSpace that
\* requirement._generate_min_capability(capability) has just returned
CallNodeCheckMin ==
    /\ op = "NodeSpace._generate_min_capability"
    /\ raised = "none"
    /\ LET out == NodeSpace_check_call(heap, req, min_value[1], "object")
       IN  /\ op' = "NodeSpace.check(min_value)"
           /\ raised' = out.raised
           /\ result' = out.result
    /\ UNCHANGED <<heap, inputs, tools, min_value, visited, ret, threads>>

\* requirement._generate_min_capability(capability) on the two environments
CallEnvGenerateMinCapability ==
    LET out == EnvironmentSpace_generate_min_capability(heap, envReq, envCap, argKind)
    IN  /\ op' = "EnvironmentSpace._generate_min_capability"
        /\ raised' = out.raised
        /\ result' = ResultReason
        /\ min_value' = <<>>
        /\ visited' = <<>>
        /\ ret' = [NoRet EXCEPT !.env = out.env]
        /\ heap' = out.heap
        /\ UNCHANGED <<inputs, tools, threads>>

\* the requirement nodes of the environments resolved: without core_count,
\* with the largest core_count, and one that excludes Features.RDMA
MinNodes ==
    {Plain(1, 0, 1, 1, 0), Plain(1, MaxCount, 1, 1, 0),
     NodeSpace_post_init([Plain(1, 1, 1, 1, 0) EXCEPT
                            !.excluded_features = [SetSpace EXCEPT !.items = {1}]])}

MinNodeLists == UNION {[1..n -> MinNodes] : n \in 0..MaxNodes}

\* the capability nodes they are resolved against
MinCapNodes == {Plain(1, c, 1, 1, 0) : c \in {0, 1, MaxCount}}

InitEnvMin ==
    /\ envReq \in {[EnvironmentSpace(l) EXCEPT !.topology = t] :
                     l \in MinNodeLists, t \in {ENVIRONMENTS_SUBNET, "other"}}
    /\ envCap \in {EnvironmentSpace(l) :
                     l \in UNION {[1..n -> MinCapNodes] : n \in 0..MaxNodes}}
                  \cup {[EmptyEnv EXCEPT !.nodes_is_none = TRUE]}
    /\ req = Plain(1, 1, 1, 1, 0)
    /\ cap = Plain(1, 1, 1, 1, 0)
    /\ heap = DefaultHeap

\* NodeSpace.from_value(capability).check(capability): the check of the node
\* that from_value has just returned, against the value it was made from
CallNodeCheckFromValue ==
    /\ op = "NodeSpace.from_value"
    /\ raised = "none"
    /\ LET out == NodeSpace_check_call(heap, ret.node[1], cap, "object")
       IN  /\ op' = "NodeSpace.from_value(v).check(v)"
           /\ raised' = out.raised
           /\ result' = out.result
    /\ UNCHANGED <<heap, inputs, tools, min_value, visited, ret, threads>>

InitDerived ==
    /\ \/ /\ InitCounts \/ InitNodeCount \/ InitFeatures \/ InitAbsent \/ InitEnvMin
          /\ argKind = "object"
       \/ InitContract
    /\ heap0 = heap
    /\ NoCall
    /\ IdleThreads
    /\ IdleTools

NextDerived ==
    \/ CallNodeGenerateMinCapability
    \/ CallNodeCheckMin
    \/ CallNodeFromValue
    \/ CallNodeCheckFromValue
    \/ CallEnvGenerateMinCapability

SpecDerived == InitDerived /\ [][NextDerived]_vars

-----------------------------------------------------------------------------
(* Equality and check on nodes and environments that differ in what they are
   called *)

\* type, name, is_default and artifact of a node
Identities ==
    [type : {ENVIRONMENTS_NODES_REQUIREMENT, "local"}, name : {"", "n1"},
     is_default : BOOLEAN, artifact : {"", "a1"}]

WithIdentity(node, id) ==
    [node EXCEPT !.type = id.type, !.name = id.name,
                 !.is_default = id.is_default, !.artifact = id.artifact]

InitIdentity ==
    /\ \E ri, ci \in Identities : \E c \in 1..MaxCount :
       \E re, cf \in {NoSet, [SetSpace EXCEPT !.items = {1}]} :
          /\ req = WithIdentity(
                     NodeSpace_post_init(
                        [Plain(1, c, 1, 1, 0) EXCEPT !.excluded_features = re]), ri)
          /\ cap = WithIdentity(
                     NodeSpace_post_init(
                        [Plain(1, 1, 1, 1, 0) EXCEPT !.features = cf]), ci)
    /\ envReq = EmptyEnv /\ envCap = EmptyEnv
    /\ heap = DefaultHeap

\* the nodes of the environments compared: two differ in name only
EqNodes ==
    {Plain(1, 1, 1, 1, 0), [Plain(1, 1, 1, 1, 0) EXCEPT !.name = "n1"],
     Plain(1, 2, 1, 1, 0)}

EqEnvs ==
    {[EnvironmentSpace(l) EXCEPT !.topology = t] :
        l \in UNION {[1..n -> EqNodes] : n \in 0..(MaxNodes - 1)},
        t \in {ENVIRONMENTS_SUBNET, "other"}}

InitEnvEq ==
    /\ envReq \in EqEnvs
    /\ envCap \in EqEnvs
    /\ req = Plain(1, 1, 1, 1, 0)
    /\ cap = Plain(1, 1, 1, 1, 0)
    /\ heap = DefaultHeap

InitEq ==
    /\ InitIdentity \/ InitEnvEq
    /\ argKind = "object"
    /\ heap0 = heap
    /\ NoCall
    /\ IdleThreads
    /\ IdleTools

NextEq ==
    \/ CallNodeCheck
    \/ CallNodeEq
    \/ CallEnvEq

SpecEq == InitEq /\ [][NextEq]_vars

-----------------------------------------------------------------------------
(* Calls made by concurrent provisioning attempts: two threads call check and
   _generate_min_capability on the same requirement and capability, whose
   feature sets share Feature objects; a thread can be preempted between the
   statements of its call *)

Threads == {1, 2}

InitConcurrent ==
    /\ heap \in Heaps
    /\ \E rf \in {NoSet, [SetSpace EXCEPT !.items = {3}]} :
       \E re, cf \in FeatureSets :
          /\ req = NodeSpace_post_init(
                     [Plain(1, 1, 1, 1, 0)
                        EXCEPT !.features = rf, !.excluded_features = re])
          /\ cap = NodeSpace_post_init(
                     [Plain(1, 1, 1, 1, 0) EXCEPT !.features = cf])
    /\ envReq = EmptyEnv /\ envCap = EmptyEnv
    /\ argKind = "object"
    /\ heap0 = heap
    /\ NoCall
    /\ IdleThreads
    /\ IdleTools

\* check, up to the loop that builds must_included_capability
CheckBegin(t) ==
    /\ pc[t] = "idle"
    /\ task' = [task EXCEPT ![t] = "check"]
    /\ IF NodeSpace_check_asserts(req)
       THEN /\ pc' = [pc EXCEPT ![t] = "fields"]
            /\ local' = [local EXCEPT
                            ![t] = must_included_capability(heap, req, cap)]
       ELSE /\ pc' = [pc EXCEPT ![t] = "raised"]
            /\ local' = local
    /\ UNCHANGED <<heap, inputs, tools, op, result, raised, min_value, visited, ret, tresult>>

\* check, from the guard on the counts to the return
CheckEnd(t) ==
    /\ pc[t] = "fields"
    /\ tresult' = [tresult EXCEPT
                     ![t] = NodeSpace_check_fields(heap, req, cap, local[t])]
    /\ pc' = [pc EXCEPT ![t] = "done"]
    /\ UNCHANGED <<heap, inputs, tools, op, result, raised, min_value, visited, ret, task, local>>

\* _generate_min_capability, up to the loop over self.excluded_features
GenerateBegin(t) ==
    /\ pc[t] = "idle"
    /\ task' = [task EXCEPT ![t] = "_generate_min_capability"]
    /\ IF NodeSpace_min_absent(req, cap) # ""
       THEN /\ pc' = [pc EXCEPT ![t] = "raised"]
            /\ local' = local
       ELSE /\ pc' = [pc EXCEPT ![t] = "excluded"]
            /\ local' = [local EXCEPT
                            ![t] = IF SetTruthy(req.excluded_features)
                                   THEN req.excluded_features
                                   ELSE SetSpace]
    /\ UNCHANGED <<heap, inputs, tools, op, result, raised, min_value, visited, ret, tresult>>

\* _generate_min_capability, one round of the loop: excluded_feature.enabled = False
GenerateDisable(t) ==
    /\ pc[t] = "excluded"
    /\ \E f \in local[t].items :
          /\ heap' = [heap EXCEPT ![f].enabled = FALSE]
          /\ local' = [local EXCEPT ![t].items = @ \ {f}]
    /\ UNCHANGED <<inputs, tools, op, result, raised, min_value, visited, ret, pc, task, tresult>>

\* _generate_min_capability, the return
GenerateEnd(t) ==
    /\ pc[t] = "excluded"
    /\ local[t].items = {}
    /\ pc' = [pc EXCEPT ![t] = "done"]
    /\ UNCHANGED <<heap, inputs, tools, op, result, raised, min_value, visited, ret, task,
                   local, tresult>>

NextConcurrent ==
    \E t \in Threads :
        \/ CheckBegin(t)
        \/ CheckEnd(t)
        \/ GenerateBegin(t)
        \/ GenerateDisable(t)
        \/ GenerateEnd(t)

SpecConcurrent == InitConcurrent /\ [][NextConcurrent]_vars

-----------------------------------------------------------------------------
(* What the claims speak of *)

CountFields == {"node_count", "core_count", "memory_mb", "nic_count", "gpu_count"}

GuardedFields == {"node_count", "core_count", "memory_mb", "nic_count"}

\* the field a reason is about: its prefix, or the node count its text names
ReasonField(reason) ==
    IF reason.path # <<>> THEN reason.path[1]
    ELSE IF reason.msg = NodeCountReason THEN "node_count"
    ELSE IF reason.msg = GuardReason THEN "guard"
    ELSE "none"

ReasonFields(rr) == {ReasonField(rr.reasons[i]) : i \in 1..Len(rr.reasons)}

\* whether the capability's count is enough for the requirement's
CountEnough(r, c) ==
    IF r.kind = "int" /\ c.kind = "int" THEN c.min >= r.min
    ELSE check_countspace(r, c).result

\* the capability's features that are enabled and cannot be disabled
MustInclude(h, c) ==
    IF c.features.isNone THEN {}
    ELSE {g \in c.features.items : h[g].enabled /\ ~h[g].can_disable}

\* the requirement excludes a name that the capability must include
ExcludedViolated(h, r, c) ==
    /\ ~r.excluded_features.isNone
    /\ \E f \in r.excluded_features.items : \E g \in MustInclude(h, c) :
          h[f].name = h[g].name

\* the sub-checks of NodeSpace.check that fail on r against c
FailingFields(h, r, c) ==
    {f \in CountFields : ~CountEnough(r[f], c[f])}
    \cup (IF \E f \in GuardedFields : ~CountTruthy(c[f]) THEN {"guard"} ELSE {})
    \cup (IF SetSpace_check(h, r.features, c.features).result
          THEN {} ELSE {"features"})
    \cup (IF ExcludedViolated(h, r, c) THEN {"excluded_features"} ELSE {})

NodeChecked == op = "NodeSpace.check" /\ raised = "none"

EnvChecked == op = "EnvironmentSpace.check" /\ argKind = "object"

AllExact(n) == \A f \in CountFields : n[f].kind = "int"

NoFeatures(n) == ~SetTruthy(n.features) /\ ~SetTruthy(n.excluded_features)

\* the count fields in which the capability is smaller than the requirement
SmallerFields(r, c) == {f \in CountFields : c[f].min < r[f].min}

-----------------------------------------------------------------------------
(* Claims *)

\* C1: NodeSpace.check evaluates every sub-check even after one has failed:
\* the verdict is true iff every sub-check passed, and the reasons hold a
\* reason for every failing sub-check (and for nothing else).
C1_EverySubCheckEvaluated ==
    NodeChecked =>
        /\ result.result = (FailingFields(heap, req, cap) = {})
        /\ ReasonFields(result) = FailingFields(heap, req, cap)

\* C1 witness: a check in which three sub-checks or more failed
C1_Witness ==
    /\ NodeChecked
    /\ Cardinality(FailingFields(heap, req, cap)) >= 3
    /\ {"memory_mb", "features", "excluded_features"}
            \subseteq FailingFields(heap, req, cap)

\* C2: with five exact counts on both sides, non-zero capability counts and no
\* features, the check returns true with zero reasons iff every capability
\* count is >= the requirement's; when exactly one capability count is
\* smaller it returns false with exactly one reason, which names that field.
C2_ExactCounts ==
    (/\ NodeChecked
     /\ AllExact(req) /\ AllExact(cap)
     /\ \A f \in GuardedFields : cap[f].min # 0
     /\ NoFeatures(req) /\ NoFeatures(cap)) =>
        /\ (result.result /\ Len(result.reasons) = 0)
                <=> (SmallerFields(req, cap) = {})
        /\ \A f \in CountFields :
              SmallerFields(req, cap) = {f} =>
                 /\ ~result.result
                 /\ Len(result.reasons) = 1
                 /\ ReasonField(result.reasons[1]) = f

\* C2 witness: scenario B, only memory_mb is insufficient
C2_Witness ==
    /\ NodeChecked
    /\ AllExact(req) /\ AllExact(cap)
    /\ NoFeatures(req) /\ NoFeatures(cap)
    /\ SmallerFields(req, cap) = {"memory_mb"}
    /\ cap.core_count.min > req.core_count.min
    /\ Len(result.reasons) = 1

\* C3: two exact node counts pass iff capability >= requirement; with a range
\* on either side the node_count decision is check_countspace's.
C3_NodeCount ==
    NodeChecked =>
        LET passes == "node_count" \notin ReasonFields(result)
        IN  IF req.node_count.kind = "int" /\ cap.node_count.kind = "int"
            THEN passes <=> (cap.node_count.min >= req.node_count.min)
            ELSE passes <=> check_countspace(req.node_count, cap.node_count).result

\* C3 witness: an exact capability node count above the exact requirement passes
C3_Witness ==
    /\ NodeChecked
    /\ req.node_count = Exact(1) /\ cap.node_count = Exact(2)
    /\ result.result

\* C4: a requirement excluding F fails against a capability whose F is enabled
\* and cannot be disabled, and only against such a capability.
C4_MustInclude ==
    NodeChecked =>
        /\ ("excluded_features" \in ReasonFields(result))
                <=> ExcludedViolated(heap, req, cap)
        /\ ~must_included_capability(heap, req, cap).isNone =>
              must_included_capability(heap, req, cap).items
                    = MustInclude(heap, cap)

\* C4 witness: the excluded feature is offered enabled and disableable, and
\* the check passes
C4_Witness ==
    /\ NodeChecked
    /\ req.excluded_features.items = {1}
    /\ cap.features.items = {2}
    /\ heap[2].enabled /\ heap[2].can_disable
    /\ result.result

\* whether requirement node i passes against the capability node it is paired with
EnvNodePasses(i) ==
    NodeSpace_check(heap, envReq.nodes[i],
                    envCap.nodes[IF Len(envCap.nodes) = 1 THEN 1 ELSE i]).result

\* C5: a capability that declares no nodes (an empty or absent list) makes
\* EnvironmentSpace.check return false with exactly one reason, and no
\* requirement node is checked.
C5_NoCapabilityNodes ==
    (EnvChecked /\ ~NodesTruthy(envCap)) =>
        /\ raised = "none"
        /\ ~result.result
        /\ Len(result.reasons) = 1
        /\ visited = <<>>

\* C5 witness: an empty capability list against a requirement of two nodes or more
C5_Witness ==
    /\ EnvChecked
    /\ ~envCap.nodes_is_none /\ envCap.nodes = <<>>
    /\ Len(envReq.nodes) >= 2
    /\ Len(result.reasons) = 1

\* C6: EnvironmentSpace.check visits the requirement nodes in increasing
\* index order, node i against capability.nodes[0] when the capability has
\* one node and against capability.nodes[i] when it has as many as the
\* requirement; while no node fails, every node is visited.
C6_BroadcastOrPairwise ==
    (/\ EnvChecked
     /\ NodesTruthy(envCap)
     /\ Len(envCap.nodes) \in {1, Len(envReq.nodes)}) =>
        /\ raised = "none"
        /\ \A k \in 1..Len(visited) :
              /\ visited[k][1] = k
              /\ visited[k][2] = (IF Len(envCap.nodes) = 1 THEN 1 ELSE k)
        /\ result.result => Len(visited) = Len(envReq.nodes)

\* C6 witness: three requirement nodes, each compared with the capability's
\* only node
C6_Witness ==
    /\ EnvChecked
    /\ Len(envReq.nodes) = 3 /\ Len(envCap.nodes) = 1
    /\ visited = <<(<<1, 1>>), (<<2, 1>>), (<<3, 1>>)>>

\* C7: EnvironmentSpace.check stops at the first requirement node that fails:
\* no later node is checked and the reasons are that node's alone.
C7_ShortCircuit ==
    (EnvChecked /\ raised = "none" /\ ~result.result /\ NodesTruthy(envCap)) =>
        LET k == Len(visited)
        IN  /\ k >= 1
            /\ \A i \in 1..(k - 1) : EnvNodePasses(i)
            /\ ~EnvNodePasses(k)
            /\ \A n \in 1..Len(result.reasons) :
                  result.reasons[n].path[1] = ToString(k - 1)
            /\ result.reasons =
                 merge(ResultReason,
                       NodeSpace_check(heap, envReq.nodes[k], envCap.nodes[visited[k][2]]),
                       ToString(k - 1)).reasons

\* C7 witness: node 0 fails, node 1 would fail too, and only node 0 was checked
C7_Witness ==
    /\ EnvChecked
    /\ Len(envReq.nodes) >= 2 /\ Len(envCap.nodes) = Len(envReq.nodes)
    /\ ~EnvNodePasses(1) /\ ~EnvNodePasses(2)
    /\ visited = <<(<<1, 1>>)>>
    /\ Len(result.reasons) = 1

\* C8: NodeSpace.check and EnvironmentSpace.check leave the requirement, the
\* capability and every Feature object as they were, and a check called again
\* right after itself returns the same verdict and reasons.
C8_CheckIsPure ==
    [][op' \in {"NodeSpace.check", "EnvironmentSpace.check"} =>
          /\ heap' = heap
          /\ inputs' = inputs
          /\ op = op' =>
                (result' = result /\ raised' = raised /\ visited' = visited)]_vars

\* C8 witness: a check has returned on nodes that share an enabled Feature
\* object between the requirement's excluded_features and the capability
C8_Witness ==
    /\ NodeChecked
    /\ 1 \in req.excluded_features.items
    /\ 1 \in cap.features.items
    /\ heap[1].enabled
    /\ ~result.result

\* C9: _generate_min_capability leaves every field of the requirement and of
\* the capability, the enabled flag of each Feature entry included, as it was.
C9_GenerateMinCapabilityIsPure ==
    [][op' = "NodeSpace._generate_min_capability" =>
          (heap' = heap /\ inputs' = inputs)]_vars

\* C10: whatever the interleaving of concurrent check and
\* _generate_min_capability calls on nodes that share Feature objects, every
\* check returns the verdict and reasons it returns alone on the initial values.
C10_CheckAsWhenAlone ==
    \A t \in Threads :
        (pc[t] = "done" /\ task[t] = "check") =>
            tresult[t] = NodeSpace_check(heap0, req, cap)

\* the capability of an environment has a length the requirement can be
\* compared with: no node, one node, or a node for every requirement node
LengthsMatch(r, c) ==
    ~NodesTruthy(c) \/ Len(c.nodes) = 1 \/ Len(c.nodes) >= Len(r.nodes)

\* some requirement node of the environment fails against its capability node
SomeEnvNodeFails ==
    \E i \in 1..Len(envReq.nodes) : ~EnvNodePasses(i)

\* C11: None, or an object of the wrong class, passed as capability to
\* NodeSpace.check or EnvironmentSpace.check makes the call raise and return
\* no ResultReason; a capability of the right class that does not satisfy the
\* requirement never makes the call raise: the mismatch is reported by the
\* returned ResultReason, verdict false and a reason.
C11_ContractViolationRaises ==
    /\ (op \in {"NodeSpace.check", "EnvironmentSpace.check"} /\ argKind # "object") =>
          (raised = "AssertionError" /\ result = ResultReason)
    /\ (op = "NodeSpace.check" /\ argKind = "object" /\ NodeSpace_check_asserts(req)) =>
          /\ raised = "none"
          /\ FailingFields(heap, req, cap) # {} =>
                (~result.result /\ Len(result.reasons) > 0)
    /\ (op = "EnvironmentSpace.check" /\ argKind = "object"
            /\ LengthsMatch(envReq, envCap)) =>
          /\ raised = "none"
          /\ (~NodesTruthy(envCap) \/ SomeEnvNodeFails) =>
                (~result.result /\ Len(result.reasons) > 0)

\* C11 witness: NodeSpace.check was passed None and raised
C11_Witness ==
    /\ op = "NodeSpace.check"
    /\ argKind = "None"
    /\ raised = "AssertionError"

\* the capability lacks (None or 0) one of the four guarded counts
AbsentCounts(c) == {f \in GuardedFields : ~CountTruthy(c[f])}

\* the positions of the guard's reason among the reasons of a result
GuardReasons(rr) ==
    {i \in 1..Len(rr.reasons) :
        rr.reasons[i].path = <<>> /\ rr.reasons[i].msg = GuardReason}

\* C12: when the capability lacks one or more of node_count, core_count,
\* memory_mb, nic_count, NodeSpace.check adds the guard's reason exactly once
\* however many of them are absent, the verdict is false, and every other
\* sub-check (counts, features, excluded_features) is still evaluated: each
\* one that fails has its reason in the result.
C12_SingleGuardReason ==
    (NodeChecked /\ AbsentCounts(cap) # {}) =>
        /\ Cardinality(GuardReasons(result)) = 1
        /\ ~result.result
        /\ ReasonFields(result) \ {"guard"} = FailingFields(heap, req, cap) \ {"guard"}

\* C12 witness: three of the four counts are None, and gpu_count and features
\* fail as well
C12_Witness ==
    /\ NodeChecked
    /\ Cardinality({f \in GuardedFields : cap[f] = NoCount}) = 3
    /\ Cardinality(GuardReasons(result)) = 1
    /\ {"gpu_count", "features"} \subseteq ReasonFields(result)

\* two nodes alike in every field, Feature entries compared by value
NodesAlike(a, b) ==
    /\ \A f \in {"type", "name", "is_default", "artifact"} \cup CountFields : a[f] = b[f]
    /\ \A f \in {"features", "excluded_features"} :
          /\ a[f].isNone = b[f].isNone
          /\ {heap[x] : x \in a[f].items} = {heap[x] : x \in b[f].items}

\* C13: two EnvironmentSpace values compare equal iff their topology is the
\* same and their node lists have one length and are equal node by node; an
\* EnvironmentSpace holds no name of the environment, so nothing but topology
\* and nodes is compared.
C13_EnvironmentEquality ==
    op = "EnvironmentSpace.__eq__" =>
        /\ raised = "none"
        /\ ret.equal <=>
              /\ envReq.topology = envCap.topology
              /\ Len(envReq.nodes) = Len(envCap.nodes)
              /\ \A i \in 1..Len(envReq.nodes) :
                    i <= Len(envCap.nodes) =>
                        NodesAlike(envReq.nodes[i], envCap.nodes[i])

\* C13 witness: two environments of two equal nodes each compare unequal
\* because their topology differs
C13_Witness ==
    /\ op = "EnvironmentSpace.__eq__"
    /\ Len(envReq.nodes) = 2
    /\ envReq.nodes = envCap.nodes
    /\ envReq.topology # envCap.topology
    /\ ~ret.equal

GenerateCalled == op = "NodeSpace._generate_min_capability"

\* C14: when the node_count of both sides is an exact integer,
\* _generate_min_capability returns the capability's node_count as it is, also
\* when it is more than the requirement asks for; with a range on either side
\* the value is the count-space resolver's minimum.
C14_NodeCountKept ==
    (GenerateCalled /\ raised = "none") =>
        /\ Len(min_value) = 1
        /\ min_value[1].node_count =
              IF req.node_count.kind = "int" /\ cap.node_count.kind = "int"
              THEN cap.node_count
              ELSE generate_min_capability_countspace(req.node_count, cap.node_count)

\* C14 witness: the requirement asks for one node, the capability has two, and
\* the minimum capability keeps two
C14_Witness ==
    /\ GenerateCalled /\ raised = "none"
    /\ req.node_count = Exact(1)
    /\ cap.node_count = Exact(2)
    /\ min_value[1].node_count = Exact(2)

\* the guarded counts that neither side declares
BothAbsent == {f \in GuardedFields : ~CountTruthy(req[f]) /\ ~CountTruthy(cap[f])}

\* the first of the fields in the order the source examines them
FirstOf(fields) ==
    IF "node_count" \in fields THEN "node_count"
    ELSE IF "core_count" \in fields THEN "core_count"
    ELSE IF "memory_mb" \in fields THEN "memory_mb"
    ELSE "nic_count"

\* C15: _generate_min_capability raises a configuration error and returns no
\* NodeSpace whenever neither side declares a non-zero value for one or more of
\* node_count, core_count, memory_mb, nic_count; the error names the first
\* such field in that order; when each of the four is declared by a side, no
\* such error is raised.
C15_AbsentCountRaises ==
    GenerateCalled =>
        /\ BothAbsent # {} =>
              /\ raised = LisaException(FirstOf(BothAbsent))
              /\ min_value = <<>>
        /\ BothAbsent = {} => (raised = "none" /\ Len(min_value) = 1)

\* C15 witness: core_count and nic_count are absent on both sides and the error
\* names core_count
C15_Witness ==
    /\ GenerateCalled
    /\ BothAbsent = {"core_count", "nic_count"}
    /\ raised = "LisaException: core_count cannot be zero"

\* C16: the features of the NodeSpace that _generate_min_capability returns
\* hold every entry of the requirement's features and every entry of its
\* excluded_features, the latter with enabled = false, and nothing else; the
\* set is there, empty, when the requirement declares neither.
C16_MinFeatures ==
    (GenerateCalled /\ raised = "none") =>
        LET allowed == IF req.features.isNone THEN {} ELSE req.features.items
            excluded == IF req.excluded_features.isNone THEN {}
                        ELSE req.excluded_features.items
        IN  /\ ~min_value[1].features.isNone
            /\ min_value[1].features.items = allowed \cup excluded
            /\ \A f \in excluded : ~heap[f].enabled
            /\ \A f \in excluded :
                  \E g \in min_value[1].features.items :
                     heap[g].name = heap0[f].name /\ ~heap[g].enabled

\* C16 witness: a requirement with an allowed and an excluded entry gives a
\* set of both, the excluded one disabled; it was enabled before
C16_Witness ==
    /\ GenerateCalled /\ raised = "none"
    /\ req.features.items = {3}
    /\ req.excluded_features.items = {2}
    /\ heap0[2].enabled
    /\ min_value[1].features.items = {2, 3}
    /\ ~heap[2].enabled /\ heap[3].enabled

\* C17: from_value copies the five counts as they are and splits
\* value.features: an entry that is enabled or can be disabled goes to
\* features, an entry that is disabled and cannot be disabled goes to
\* excluded_features; every entry lands in exactly one of the two sets,
\* neither set gains an entry that value.features does not hold, and a set
\* without entries stays absent.
C17_FromValuePartition ==
    (op = "NodeSpace.from_value" /\ raised = "none") =>
        LET node == ret.node[1]
            entries == IF cap.features.isNone THEN {} ELSE cap.features.items
        IN  /\ \A f \in CountFields : node[f] = cap[f]
            /\ node.features.items \cup node.excluded_features.items = entries
            /\ node.features.items \cap node.excluded_features.items = {}
            /\ \A f \in node.features.items : heap[f].enabled \/ heap[f].can_disable
            /\ \A f \in node.excluded_features.items :
                  ~heap[f].enabled /\ ~heap[f].can_disable
            /\ node.features.isNone <=> node.features.items = {}
            /\ node.excluded_features.isNone <=> node.excluded_features.items = {}

\* C17 witness: a disabled entry that can be disabled goes to features, a
\* disabled one that cannot goes to excluded_features
C17_Witness ==
    /\ op = "NodeSpace.from_value" /\ raised = "none"
    /\ cap.features.items = {2, 3}
    /\ ~heap[2].enabled /\ heap[2].can_disable
    /\ ~heap[3].enabled /\ ~heap[3].can_disable
    /\ ret.node[1].features.items = {2}
    /\ ret.node[1].excluded_features.items = {3}

\* C18: whenever requirement.check(capability) passes, the NodeSpace that
\* generate_min_capability returns for the two satisfies the requirement:
\* requirement.check of it passes as well.
C18_MinCapabilitySatisfies ==
    (op = "NodeSpace.check(min_value)" /\ ret.passes) =>
        (raised = "none" /\ result.result)

EnvGenerateCalled ==
    op = "EnvironmentSpace._generate_min_capability" /\ argKind = "object"

\* the capability node that requirement node i is resolved against
ResolvedAgainst(i) == IF Len(envCap.nodes) = 1 THEN 1 ELSE i

\* no requirement node among the first n, paired with a capability node, lacks a
\* count on both sides
NoNodeRaises(n) ==
    \A i \in 1..n :
        ResolvedAgainst(i) <= Len(envCap.nodes) =>
            NodeSpace_min_absent(envReq.nodes[i], envCap.nodes[ResolvedAgainst(i)]) = ""

\* the call returned an EnvironmentSpace of the requirement's topology with
\* one resolved node for each requirement node, in order
ReturnsResolvedNodes ==
    /\ raised = "none"
    /\ Len(ret.env) = 1
    /\ ret.env[1].topology = envReq.topology
    /\ Len(ret.env[1].nodes) = Len(envReq.nodes)
    /\ \A i \in 1..Len(envReq.nodes) :
          ResolvedAgainst(i) <= Len(envCap.nodes) =>
             <<ret.env[1].nodes[i]>> =
                NodeSpace_generate_min_capability(
                    heap, envReq.nodes[i], envCap.nodes[ResolvedAgainst(i)]).value

IdentityFields == {"type", "name", "is_default", "artifact"}

\* the node with type, name, is_default and artifact at their defaults
Anonymous(node) ==
    [node EXCEPT !.type = ENVIRONMENTS_NODES_REQUIREMENT, !.name = "",
                 !.is_default = FALSE, !.artifact = ""]

\* C20: what NodeSpace.check returns depends on the counts and the feature
\* sets only: the requirement and the capability give the verdict and reasons
\* that the same two nodes give with type, name, is_default and artifact at
\* their defaults, so any two pairs that differ in those fields only get one
\* result; NodeSpace equality does tell apart two nodes that differ in any of
\* those fields.
C20_CheckIgnoresIdentity ==
    /\ op = "NodeSpace.check" =>
          LET out == NodeSpace_check_call(heap, Anonymous(req), Anonymous(cap), argKind)
          IN  raised = out.raised /\ result = out.result
    /\ (op = "NodeSpace.__eq__" /\ raised = "none") =>
          ((\E f \in IdentityFields : req[f] # cap[f]) => ~ret.equal)

\* C20 witness: a check has failed on two nodes of different names and types
C20_Witness ==
    /\ NodeChecked
    /\ req.name # cap.name
    /\ req.type # cap.type
    /\ req.is_default # cap.is_default
    /\ req.artifact # cap.artifact
    /\ ~result.result
    /\ result = NodeSpace_check(heap, Anonymous(req), Anonymous(cap))

\* the fields whose sub-checks NodeSpace.check merges
CheckedFields == CountFields \cup {"features", "excluded_features"}

\* C21: every reason of the ResultReason that NodeSpace.check returns, the
\* guard's reason on the four counts aside, is prefixed with the name of the
\* field whose sub-check produced it; a node_count mismatch between two exact
\* integers included.
C21_ReasonsPrefixed ==
    NodeChecked =>
        \A i \in 1..Len(result.reasons) :
            result.reasons[i].msg # GuardReason =>
                /\ result.reasons[i].path # <<>>
                /\ result.reasons[i].path[1] \in CheckedFields

\* C22: when the capability declares k nodes, 2 <= k < number of requirement
\* nodes, EnvironmentSpace.check ends in an IndexError, returning nothing,
\* exactly when the first k requirement nodes all pass against their
\* capability nodes; if one of them fails, it returns a failed ResultReason
\* whose reasons are that node's; when the capability declares more nodes than
\* the requirement, and more than one, the surplus nodes are never compared
\* and the verdict is that of the requirement's nodes against their own.
C22_MismatchedLengths ==
    EnvChecked =>
        LET k == Len(envCap.nodes)
            n == Len(envReq.nodes)
        IN  /\ (2 <= k /\ k < n) =>
                  /\ raised = "IndexError" <=> \A i \in 1..k : EnvNodePasses(i)
                  /\ raised = "IndexError" => result = ResultReason
                  /\ raised # "IndexError" =>
                        /\ raised = "none"
                        /\ ~result.result
                        /\ ~EnvNodePasses(Len(visited))
                        /\ \A m \in 1..Len(result.reasons) :
                              result.reasons[m].path[1] = ToString(Len(visited) - 1)
            /\ (k > n /\ k > 1) =>
                  /\ raised = "none"
                  /\ \A m \in 1..Len(visited) : visited[m][2] <= n
                  /\ result.result <=> \A i \in 1..n : EnvNodePasses(i)

\* C22 witness: three requirement nodes against two capability nodes that
\* satisfy the first two: the call ended in an IndexError after comparing both
C22_Witness ==
    /\ EnvChecked
    /\ Len(envReq.nodes) = 3 /\ Len(envCap.nodes) = 2
    /\ EnvNodePasses(1) /\ EnvNodePasses(2)
    /\ raised = "IndexError"
    /\ visited = <<(<<1, 1>>), (<<2, 2>>)>>

\* no two entries of the set have one name
UniqueNames(h, s) ==
    \A f, g \in s.items : h[f].name = h[g].name => f = g

\* C23: given a requirement and a value whose features and excluded_features
\* each hold no two entries of one name, neither the features set that
\* _generate_min_capability builds nor the features and excluded_features sets
\* that from_value builds hold two entries of one name.
C23_UniqueFeatureNames ==
    /\ (GenerateCalled /\ raised = "none") =>
          UniqueNames(heap, min_value[1].features)
    /\ (op = "NodeSpace.from_value" /\ raised = "none") =>
          /\ UniqueNames(heap, ret.node[1].features)
          /\ UniqueNames(heap, ret.node[1].excluded_features)

\* C24: _generate_min_capability sets the gpu_count of what it returns to the
\* exact integer 0 when neither side declares a non-zero gpu_count, and to the
\* count-space resolver's minimum of the two otherwise; an absent gpu_count
\* never makes it raise.
C24_GpuCountDefault ==
    GenerateCalled =>
        /\ raised = "none" =>
              min_value[1].gpu_count =
                 IF CountTruthy(req.gpu_count) \/ CountTruthy(cap.gpu_count)
                 THEN generate_min_capability_countspace(req.gpu_count, cap.gpu_count)
                 ELSE Exact(0)
        /\ BothAbsent = {} => raised = "none"

\* C24 witness: gpu_count is None on both sides and comes out as the integer 0
C24_Witness ==
    /\ GenerateCalled /\ raised = "none"
    /\ req.gpu_count = NoCount /\ cap.gpu_count = NoCount
    /\ min_value[1].gpu_count = Exact(0)

\* a concrete node: exact counts, the four guarded ones non-zero
Concrete(v) ==
    /\ \A f \in CountFields : v[f].kind = "int"
    /\ \A f \in GuardedFields : v[f].min # 0

\* C25: for every concrete node v whose features have unique names,
\* NodeSpace.from_value(v).check(v) does not raise and returns a true verdict.
C25_FromValueSatisfied ==
    (/\ op = "NodeSpace.from_value(v).check(v)"
     /\ Concrete(cap)
     /\ UniqueNames(heap, cap.features)) =>
        (raised = "none" /\ result.result)

-----------------------------------------------------------------------------
(* The components below are run on their own: the matching core stays as
   constructed *)

core == <<heap, inputs, op, result, raised, min_value, visited, ret, threads>>

IdleCore ==
    /\ heap = DefaultHeap
    /\ heap0 = heap
    /\ req = Plain(1, 1, 1, 1, 0)
    /\ cap = Plain(1, 1, 1, 1, 0)
    /\ envReq = EmptyEnv
    /\ envCap = EmptyEnv
    /\ argKind = "object"
    /\ NoCall
    /\ IdleThreads

-----------------------------------------------------------------------------
(* EnvironmentSpace.from_value and the list objects behind the nodes fields.
   lists.store[i] is the content of list object i; lists.value and lists.env
   are the list objects that value.nodes and the returned env.nodes refer to *)

\* the nodes of a realized environment: two plain ones and one with a feature
ValueNodes ==
    {Plain(1, 1, 1, 1, 0), Plain(1, MaxCount, 1, 1, 0),
     NodeSpace_post_init(
        [Plain(1, 1, 1, 1, 0) EXCEPT !.features = [SetSpace EXCEPT !.items = {3}]])}

InitLists ==
    /\ \E l \in UNION {[1..n -> ValueNodes] : n \in 0..MaxNodes} :
          lists = [called |-> FALSE, store |-> <<l>>, value |-> 1, env |-> 0,
                   before |-> l, appended |-> "none"]
    /\ runbook = NoRunbook /\ cps = NoCps /\ remote = NoRemote /\ perf = NoPerf
    /\ IdleCore

\* the loop of from_value: one NodeSpace.from_value per node, appended in order
EnvironmentSpace_from_value_nodes(h, nodes) ==
    [i \in 1..Len(nodes) |-> NodeSpace_from_value(h, nodes[i])]

\* env.nodes = value.nodes, replaced by a list() that the loop fills only
\* when value.nodes is true (not empty); the list that EnvironmentSpace()
\* made for env.nodes is dropped by the first assignment
EnvironmentSpace_from_value(store, value) ==
    IF Len(store[value]) > 0
    THEN [store |-> Append(store, EnvironmentSpace_from_value_nodes(heap, store[value])),
          env |-> Len(store) + 1]
    ELSE [store |-> store, env |-> value]

\* env = EnvironmentSpace.from_value(value)
CallEnvFromValue ==
    /\ lists.called = FALSE
    /\ LET out == EnvironmentSpace_from_value(lists.store, lists.value)
       IN  lists' = [lists EXCEPT !.called = TRUE, !.store = out.store, !.env = out.env]
    /\ UNCHANGED <<core, runbook, cps, remote, perf>>

\* env.nodes.append(node), after from_value returned env
AppendToResult ==
    /\ lists.called /\ lists.appended = "none"
    /\ \E node \in ValueNodes :
          lists' = [lists EXCEPT !.store[lists.env] = Append(@, node),
                                 !.appended = "result"]
    /\ UNCHANGED <<core, runbook, cps, remote, perf>>

\* value.nodes.append(node), after from_value returned
AppendToValue ==
    /\ lists.called /\ lists.appended = "none"
    /\ \E node \in ValueNodes :
          lists' = [lists EXCEPT !.store[lists.value] = Append(@, node),
                                 !.appended = "input"]
    /\ UNCHANGED <<core, runbook, cps, remote, perf>>

NextLists == CallEnvFromValue \/ AppendToResult \/ AppendToValue

SpecLists == InitLists /\ [][NextLists]_vars

\* C26: the nodes list of the environment that EnvironmentSpace.from_value
\* returns is never the input's own list object and holds the projection of
\* each input node in order, so an append to either list afterwards leaves
\* the other as it was, also when the input has no nodes
C26_FromValueFreshList ==
    lists.called =>
        /\ lists.env # lists.value
        /\ lists.appended = "none" =>
              lists.store[lists.env] =
                 EnvironmentSpace_from_value_nodes(heap, lists.store[lists.value])
        /\ lists.appended = "result" => lists.store[lists.value] = lists.before
        /\ lists.appended = "input" =>
              lists.store[lists.env] =
                 EnvironmentSpace_from_value_nodes(heap, lists.before)

-----------------------------------------------------------------------------
(* ExtendableSchemaMixin.get_extended_runbook on one instance.  runbook.attrs
   is the instance's attribute dictionary; a loaded schema object is
   [runbook_type, data, id], id telling one load's object from another's *)

\* calls made on one instance (get_extended_runbook, process_result_file)
MaxCalls == 2

\* constants.TYPE
TYPE == "type"

NoneValue == [runbook_type |-> "None", data |-> "", id |-> 0]

\* the names that start with two underscores and do not end with two
PrivateNames == {"__extended_runbook"}

\* an identifier __name written inside the body of class cls is compiled to
\* _cls__name; a name given as a string (to hasattr) is taken as it is
Mangle(cls, name) == IF name \in PrivateNames THEN "_" \o cls \o name ELSE name

hasattr(attrs, name) == name \in DOMAIN attrs

setattr(attrs, name, value) ==
    [n \in DOMAIN attrs \cup {name} |-> IF n = name THEN value ELSE attrs[n]]

\* extend_schemas: None, or a dictionary field name -> the data found under it
ExtendSchemas ==
    {[isNone |-> TRUE, items |-> <<>>]} \cup
    {[isNone |-> FALSE, items |-> [k \in ks |-> "data of " \o k]] :
        ks \in {{}, {"x"}, {"x", "y"}}}

\* DataClassJsonMixin subclasses, and a class that is not one
RunbookTypes == {"A", "B", "str"}
FieldNames == {"", "x", "y"}

\* the instance after construction: extend_schemas, and `type` unless the
\* class declares none
InitRunbook ==
    /\ \E e \in ExtendSchemas : \E has_type \in BOOLEAN :
          runbook = [constructed |-> TRUE,
                     attrs |-> IF has_type
                               THEN setattr(setattr(<<>>, "extend_schemas", e), TYPE, "x")
                               ELSE setattr(<<>>, "extend_schemas", e),
                     calls |-> 0, attempts |-> 0, loads |-> 0, loads_later |-> 0,
                     returned |-> NoneValue, first |-> NoneValue, raised |-> "none"]
    /\ lists = NoLists /\ cps = NoCps /\ remote = NoRemote /\ perf = NoPerf
    /\ IdleCore

\* hasattr(self, "__extended_runbook")
ExtendedRunbookCached(attrs) == hasattr(attrs, "__extended_runbook")

\* runbook_type.schema().load(data): a new object on every load
schema_load(runbook_type, data, id) ==
    [runbook_type |-> runbook_type, data |-> data, id |-> id]

\* get_extended_runbook(self, runbook_type, field_name): the attributes
\* after the call, what it returned or raised and whether it loaded
get_extended_runbook(attrs, runbook_type, field_name, loads) ==
    LET stored == Mangle("ExtendableSchemaMixin", "__extended_runbook")
        name == IF field_name = "" THEN attrs[TYPE] ELSE field_name
        ext == attrs["extend_schemas"]
        found == ~ext.isNone /\ DOMAIN ext.items # {} /\ name \in DOMAIN ext.items
        value == IF found THEN schema_load(runbook_type, ext.items[name], loads + 1)
                 ELSE NoneValue
    IN  IF ExtendedRunbookCached(attrs)
        THEN [attrs |-> attrs, raised |-> "none", returned |-> attrs[stored],
              loaded |-> FALSE]
        ELSE IF runbook_type = "str" \/ (field_name = "" /\ ~hasattr(attrs, TYPE))
        THEN [attrs |-> attrs, raised |-> "AssertionError", returned |-> NoneValue,
              loaded |-> FALSE]
        ELSE [attrs |-> setattr(attrs, stored, value), raised |-> "none",
              returned |-> value, loaded |-> found]

\* self.get_extended_runbook(runbook_type, field_name)
CallGetExtendedRunbook ==
    /\ runbook.constructed /\ runbook.attempts < MaxCalls
    /\ \E runbook_type \in RunbookTypes : \E field_name \in FieldNames :
          LET out == get_extended_runbook(runbook.attrs, runbook_type, field_name,
                                          runbook.loads)
              returns == out.raised = "none"
              load == IF out.loaded THEN 1 ELSE 0
          IN  runbook' =
                [runbook EXCEPT
                   !.attrs = out.attrs,
                   !.attempts = @ + 1,
                   !.calls = IF returns THEN @ + 1 ELSE @,
                   !.loads = @ + load,
                   !.loads_later = IF runbook.calls >= 1 THEN @ + load ELSE @,
                   !.returned = out.returned,
                   !.raised = out.raised,
                   !.first = IF returns /\ runbook.calls = 0 THEN out.returned ELSE @]
    /\ UNCHANGED <<core, lists, cps, remote, perf>>

\* self.extend_schemas = e, between two calls
SetExtendSchemas ==
    /\ runbook.constructed /\ runbook.attempts < MaxCalls
    /\ \E e \in ExtendSchemas :
          /\ e # runbook.attrs["extend_schemas"]
          /\ runbook' = [runbook EXCEPT !.attrs = setattr(@, "extend_schemas", e)]
    /\ UNCHANGED <<core, lists, cps, remote, perf>>

NextRunbook == CallGetExtendedRunbook \/ SetExtendSchemas

SpecRunbook == InitRunbook /\ [][NextRunbook]_vars

\* C27: once a call of get_extended_runbook has returned on an instance,
\* every later call on it returns the object the first call stored and no
\* later call loads the schema from extend_schemas
C27_ExtendedRunbookCached ==
    (runbook.constructed /\ runbook.calls >= 2 /\ runbook.raised = "none") =>
        (runbook.returned = runbook.first /\ runbook.loads_later = 0)

-----------------------------------------------------------------------------
(* Cps.process_result_file on one Cps instance.  A result file is the
   sequence of its lines: the header that names the Conn/s column, a data row
   with a number or with text in that column, or a blank line *)

\* lines of a result file
MaxLines == 3

ResultLines ==
    {[kind |-> "header", value |-> 0], [kind |-> "blank", value |-> 0],
     [kind |-> "text", value |-> 0]}
    \cup {[kind |-> "row", value |-> v] : v \in 1..2}

ResultFiles == UNION {[1..n -> ResultLines] : n \in 0..MaxLines}

\* Cps.__init__: no samples, and the one CpsResult the instance keeps;
\* result_file and warmup_time_secs are the arguments of the last call
InitCps ==
    /\ cps = [constructed |-> TRUE, results_per_sec |-> <<>>, calls |-> 0,
              processed_results |-> 0, raised |-> "none",
              result_file |-> <<>>, warmup_time_secs |-> 0,
              cps_result |-> [samples |-> 0, min |-> 0, max |-> 0, sum |-> 0]]
    /\ lists = NoLists /\ runbook = NoRunbook /\ remote = NoRemote /\ perf = NoPerf
    /\ IdleCore

\* one pass of the loop over the lines.  readlines() keeps the line ends, so
\* `line == ""` is never true and a blank line is the one that splits into
\* nothing; float() of text raises the ValueError that the loop swallows,
\* and a row read before the header finds value_index unassigned
process_line(st, line) ==
    IF st.raised # "none" \/ ~st.append_result THEN st
    ELSE IF line.kind = "header" THEN [st EXCEPT !.value_index = TRUE]
    ELSE IF line.kind = "blank" THEN [st EXCEPT !.append_result = FALSE]
    ELSE IF st.exclude_count > 0 THEN [st EXCEPT !.exclude_count = @ - 1]
    ELSE IF ~st.value_index THEN [st EXCEPT !.raised = "UnboundLocalError"]
    ELSE IF line.kind = "text" THEN st
    ELSE [st EXCEPT !.processed_results = @ + 1,
                    !.results_per_sec = Append(@, line.value)]

RECURSIVE process_lines(_, _, _)
process_lines(st, lines, i) ==
    IF i > Len(lines) THEN st
    ELSE process_lines(process_line(st, lines[i]), lines, i + 1)

RECURSIVE SumOf(_)
SumOf(s) == IF s = <<>> THEN 0 ELSE Head(s) + SumOf(Tail(s))

\* the statistics of self._results_per_sec: how many samples they cover,
\* min, max and the sum behind the average
process_additional_stats_from_results(results_per_sec) ==
    LET values == {results_per_sec[i] : i \in 1..Len(results_per_sec)}
    IN  [samples |-> Len(results_per_sec),
         min |-> CHOOSE v \in values : \A w \in values : v <= w,
         max |-> CHOOSE v \in values : \A w \in values : v >= w,
         sum |-> SumOf(results_per_sec)]

\* process_result_file(warmup_time_secs, significance_level, result_file) on
\* an instance whose samples so far are results_per_sec
process_result_file(self, warmup_time_secs, lines) ==
    LET st == process_lines(
                 [exclude_count |-> warmup_time_secs, append_result |-> TRUE,
                  value_index |-> FALSE, processed_results |-> 0,
                  results_per_sec |-> self.results_per_sec, raised |-> "none"],
                 lines, 1)
    IN  IF st.raised # "none"
        THEN [self EXCEPT !.results_per_sec = st.results_per_sec,
                          !.raised = st.raised]
        ELSE IF st.results_per_sec = <<>>
        THEN [self EXCEPT !.raised = "ValueError"]
        ELSE [self EXCEPT
                !.results_per_sec = st.results_per_sec,
                !.raised = "none",
                !.processed_results = st.processed_results,
                !.cps_result = process_additional_stats_from_results(st.results_per_sec)]

\* cps.process_result_file(warmup_time_secs, significance_level, result_file)
CallProcessResultFile ==
    /\ cps.constructed /\ cps.calls < MaxCalls
    /\ \E lines \in ResultFiles : \E warmup_time_secs \in 0..1 :
          cps' = [process_result_file(cps, warmup_time_secs, lines)
                    EXCEPT !.calls = @ + 1, !.result_file = lines,
                           !.warmup_time_secs = warmup_time_secs]
    /\ UNCHANGED <<core, lists, runbook, remote, perf>>

NextCps == CallProcessResultFile

SpecCps == InitCps /\ [][NextCps]_vars

\* C28: whenever a call of process_result_file returns, the sample count it
\* returns is the number of samples its returned statistics were computed
\* over
C28_CountMatchesStatistics ==
    (cps.constructed /\ cps.calls >= 1 /\ cps.raised = "none") =>
        cps.processed_results = cps.cps_result.samples

-----------------------------------------------------------------------------
(* RemoteNode: construction, with __post_init__ *)

\* what the constructor is given: an address is "" when not given, a port 0
\* when given as zero (22 is its default), a credential "" when not given
RemoteNodeArgs ==
    [address : {"", "10.0.0.4", "10.0.0.5"}, public_address : {"", "10.0.0.4", "52.1.1.1"},
     port : {0, 22, 2222}, public_port : {0, 22, 2222},
     password : {"", "secret"}, private_key_file : {"", "id_rsa"}]

InitRemote ==
    /\ remote = NoRemote
    /\ lists = NoLists /\ runbook = NoRunbook /\ cps = NoCps /\ perf = NoPerf
    /\ IdleCore

\* as if only the addresses were filled in from each other
RemoteNode_post_init_addresses_only(args) ==
    IF args.address = "" /\ args.public_address = ""
    THEN [state |-> "raised", args |-> args, node |-> args,
          error |-> "at least one of address and publicAddress need to be set"]
    ELSE IF args.port = 0 /\ args.public_port = 0
    THEN [state |-> "raised", args |-> args, node |-> args,
          error |-> "at least one of port and publicPort need to be set"]
    ELSE IF args.password = "" /\ args.private_key_file = ""
    THEN [state |-> "raised", args |-> args, node |-> args,
          error |-> "at least one of password and privateKeyFile need to be set"]
    ELSE [state |-> "constructed", args |-> args, error |-> "",
          node |-> [args EXCEPT
                      !.address = IF @ = "" THEN args.public_address ELSE @,
                      !.public_address = IF @ = "" THEN args.address ELSE @]]

\* RemoteNode(**args): the fields after __post_init__, or the LisaException
\* it raised.  The three tests run in this order, so the first missing pair
\* is the one reported
RemoteNode_post_init(args) ==
    IF args.address = "" /\ args.public_address = ""
    THEN [state |-> "raised", args |-> args, node |-> args,
          error |-> "at least one of address and publicAddress need to be set"]
    ELSE IF args.port = 0 /\ args.public_port = 0
    THEN [state |-> "raised", args |-> args, node |-> args,
          error |-> "at least one of port and publicPort need to be set"]
    ELSE IF args.password = "" /\ args.private_key_file = ""
    THEN [state |-> "raised", args |-> args, node |-> args,
          error |-> "at least one of password and privateKeyFile need to be set"]
    ELSE [state |-> "constructed", args |-> args, error |-> "",
          node |-> [args EXCEPT
                      !.address = IF @ = "" THEN args.public_address ELSE @,
                      !.public_address = IF @ = "" THEN args.address ELSE @,
                      !.port = IF @ = 0 THEN args.public_port ELSE @,
                      !.public_port = IF @ = 0 THEN args.port ELSE @]]

\* node = RemoteNode(address=.., port=.., ...)
ConstructRemoteNode ==
    /\ remote.state = "none"
    /\ \E args \in RemoteNodeArgs : remote' = RemoteNode_post_init(args)
    /\ UNCHANGED <<core, lists, runbook, cps, perf>>

\* a construction that raised leaves no node; the caller constructs again
DiscardRemoteNode ==
    /\ remote.state = "raised"
    /\ remote' = NoRemote
    /\ UNCHANGED <<core, lists, runbook, cps, perf>>

NextRemote == ConstructRemoteNode \/ DiscardRemoteNode

SpecRemote == InitRemote /\ [][NextRemote]_vars

\* the pairs of which the constructor was given neither member
MissingPairs(args) ==
    \/ args.address = "" /\ args.public_address = ""
    \/ args.port = 0 /\ args.public_port = 0
    \/ args.password = "" /\ args.private_key_file = ""

\* C29: a constructed RemoteNode has both addresses non-empty and both ports
\* non-zero, a member given alone having supplied the other, and has a
\* password or a private key file; construction raises exactly when both
\* addresses, both ports or both credentials are missing
C29_RemoteNodeComplete ==
    /\ remote.state = "constructed" =>
          /\ remote.node.address # "" /\ remote.node.public_address # ""
          /\ remote.args.address = "" => remote.node.address = remote.args.public_address
          /\ remote.args.public_address = "" =>
                remote.node.public_address = remote.args.address
          /\ remote.args.address # "" => remote.node.address = remote.args.address
          /\ remote.args.public_address # "" =>
                remote.node.public_address = remote.args.public_address
          /\ remote.node.port # 0 /\ remote.node.public_port # 0
          /\ remote.args.port = 0 => remote.node.port = remote.args.public_port
          /\ remote.args.public_port = 0 => remote.node.public_port = remote.args.port
          /\ remote.args.port # 0 => remote.node.port = remote.args.port
          /\ remote.args.public_port # 0 =>
                remote.node.public_port = remote.args.public_port
          /\ remote.node.password # "" \/ remote.node.private_key_file # ""
    /\ remote.state # "none" =>
          (remote.state = "raised" <=> MissingPairs(remote.args))

\* a node constructed from a public address, a port and a key file alone
C29_Witness ==
    /\ remote.state = "constructed"
    /\ remote.args.address = "" /\ remote.args.public_port = 0
    /\ remote.args.password = ""
    /\ remote.node.address = "52.1.1.1" /\ remote.node.public_port = 2222

-----------------------------------------------------------------------------
(* perf_ntttcp: one call, statement by statement.  Every call into a tool or
   a node inside the try block can raise; perf.error names the call that
   did.  perf.calls is the sequence of restore calls made so far.  The
   restore calls of the finally block are taken to return *)

\* connection counts of one run
MaxConnections == 2

max_server_threads == 64

Connections == UNION {[1..n -> {1, 32, 128}] : n \in 0..MaxConnections}

\* the calls between obtaining the Lagscope tools and the loop
SetupSteps == {"get_nic_datapath", "get_lower_nics", "server_lagscope.run_as_server"}

\* the calls of one pass of the loop
IterationSteps ==
    {"server_ntttcp.run_as_server_async", "client_lagscope.run_as_client_async",
     "client_ntttcp.run_as_client", "server_result.wait_result",
     "create_ntttcp_result", "client_lagscope_process.wait_result",
     "client_lagscope.get_average", "create_ntttcp_performance_message",
     "notifier.notify"}

InitPerf ==
    /\ perf = NoPerf
    /\ lists = NoLists /\ runbook = NoRunbook /\ cps = NoCps /\ remote = NoRemote
    /\ IdleCore

\* the thread counts and the buffer size of one pass
ntttcp_message(test_thread, udp_mode) ==
    LET num_threads_p == IF test_thread < max_server_threads
                         THEN test_thread ELSE max_server_threads
        num_threads_n == IF test_thread < max_server_threads
                         THEN 1 ELSE test_thread \div num_threads_p
    IN  [test_thread |-> test_thread, num_threads_p |-> num_threads_p,
         num_threads_n |-> num_threads_n,
         buffer_size |-> IF udp_mode THEN 1024 \div 1024
                         ELSE IF num_threads_n = 1 /\ num_threads_p = 1
                         THEN 1048576 \div 1024 ELSE 65536 \div 1024]

\* as if the body were not inside try ... finally
perf_raise_unguarded(p, step) == [p EXCEPT !.pc = "propagated", !.error = step]

\* a call inside the try block raises: control goes to the finally block
perf_raise(p, step) == [p EXCEPT !.pc = "finally", !.error = step]

\* [client_ntttcp, server_ntttcp] and [client_lagscope, server_lagscope]
finally_ntttcp == <<"client_ntttcp", "server_ntttcp">>
finally_lagscope == <<"client_lagscope", "server_lagscope">>

\* perf_ntttcp(environment, udp_mode, connections) up to the try block:
\* client.tools[Ntttcp] and server.tools[Ntttcp] in parallel
PerfStart ==
    /\ perf.pc = "idle"
    /\ \E udp_mode \in BOOLEAN : \E connections \in Connections : \E ok \in BOOLEAN :
          perf' = [pc |-> IF ok THEN "try" ELSE "propagated",
                   udp_mode |-> udp_mode, connections |-> connections,
                   messages |-> <<>>, ntttcp |-> ok, lagscope |-> FALSE,
                   error |-> IF ok THEN "none" ELSE "tools[Ntttcp]",
                   calls |-> <<>>]
    /\ UNCHANGED <<core, lists, runbook, cps, remote>>

\* client_lagscope, server_lagscope = run_in_parallel(...)
ObtainLagscope ==
    /\ perf.pc = "try"
    /\ \E ok \in BOOLEAN :
          perf' = IF ok THEN [perf EXCEPT !.pc = "setup", !.lagscope = TRUE]
                  ELSE perf_raise(perf, "tools[Lagscope]")
    /\ UNCHANGED <<core, lists, runbook, cps, remote>>

\* the data path, the nic names and server_lagscope.run_as_server
PerfSetup ==
    /\ perf.pc = "setup"
    /\ \E step \in SetupSteps \cup {"none"} :
          perf' = IF step = "none" THEN [perf EXCEPT !.pc = "loop"]
                  ELSE perf_raise(perf, step)
    /\ UNCHANGED <<core, lists, runbook, cps, remote>>

\* one pass of `for test_thread in connections`
PerfIterate ==
    /\ perf.pc = "loop" /\ perf.connections # <<>>
    /\ \E step \in IterationSteps \cup {"none"} :
          perf' = IF step = "none"
                  THEN [perf EXCEPT
                          !.connections = Tail(@),
                          !.messages = Append(@, ntttcp_message(Head(perf.connections),
                                                                perf.udp_mode))]
                  ELSE perf_raise(perf, step)
    /\ UNCHANGED <<core, lists, runbook, cps, remote>>

\* the loop is over
PerfLoopEnd ==
    /\ perf.pc = "loop" /\ perf.connections = <<>>
    /\ perf' = [perf EXCEPT !.pc = "finally"]
    /\ UNCHANGED <<core, lists, runbook, cps, remote>>

\* finally: ntttcp.restore_system(udp_mode) for both Ntttcp tools
RestoreSystem ==
    /\ perf.pc = "finally"
    /\ perf' = [perf EXCEPT
                  !.pc = "finally lagscope",
                  !.calls = @ \o [i \in 1..Len(finally_ntttcp) |->
                                     finally_ntttcp[i] \o ".restore_system"]]
    /\ UNCHANGED <<core, lists, runbook, cps, remote>>

\* finally: lagscope.restore_busy_poll() for both Lagscope tools, whose names
\* are unassigned when obtaining them raised; then the function returns, or
\* the error goes on to the caller
RestoreBusyPoll ==
    /\ perf.pc = "finally lagscope"
    /\ perf' = IF perf.lagscope
               THEN [perf EXCEPT
                       !.pc = IF perf.error = "none" THEN "returned" ELSE "propagated",
                       !.calls = @ \o [i \in 1..Len(finally_lagscope) |->
                                          finally_lagscope[i] \o ".restore_busy_poll"]]
               ELSE [perf EXCEPT !.pc = "propagated", !.error = "UnboundLocalError"]
    /\ UNCHANGED <<core, lists, runbook, cps, remote>>

NextPerf ==
    \/ PerfStart \/ ObtainLagscope \/ PerfSetup \/ PerfIterate \/ PerfLoopEnd
    \/ RestoreSystem \/ RestoreBusyPoll

SpecPerf == InitPerf /\ [][NextPerf]_vars

Called(name) == \E i \in 1..Len(perf.calls) : perf.calls[i] = name

====
